---- MODULE Spec2Model ----
(***************************************************************************)
(* Model of ogdf::SpringEmbedderFRExact (SpringEmbedderFRExact.cpp): the   *)
(* orchestrator call(), the per-component Flat Graph View (ArrayGraph),    *)
(* the Layout Initializer, the cooling schedule and the two main-step      *)
(* loops (scalar mainStep, vectorized mainStep_sse3).                      *)
(*                                                                         *)
(* Numbers.  The code computes in IEEE doubles.  The model computes in     *)
(* fixed point on an integer grid: every length is an integer number of    *)
(* grid units, the ideal edge length is IdealEdgeLength units, and every   *)
(* quotient and square root is rounded toward zero to the grid (TDiv,      *)
(* Sqrt).  Dimensionless factors (ratio, fx, fy, weight/distSquare) are    *)
(* below the grid's resolution and are therefore kept as exact fractions   *)
(* until the first product that is a length again.  minDist (10e-6 in the  *)
(* code) is the smallest positive grid value.                              *)
(*                                                                         *)
(* Indices.  The code's compact indices 0..n-1 are 1..n here.              *)
(***************************************************************************)
EXTENDS Integers, Sequences, FiniteSets, TLC

(***************************************************************************)
(* Bounds of the model.                                                    *)
(***************************************************************************)
\* largest number of nodes of an input graph / of a Flat Graph View
MaxNodes == 3
\* largest iteration budget m_iterations
MaxIter == 2

\* the coordinates input nodes are drawn from
Points == { <<0, 0>>, <<30, 0>>, <<150, 50>> }

(***************************************************************************)
(* Configuration values (SpringEmbedderFRExact::SpringEmbedderFRExact and  *)
(* the constants of mainStep), in grid units.                              *)
(***************************************************************************)
\* m_idealEdgeLength, k
IdealEdgeLength == 100
\* m_minDistCC
MinDistCC == 50
\* m_convTolerance = 0.01, in percent
ConvTolerancePct == 1
\* m_coolFactor_x = 0.9, m_coolFactor_y = 0.9, in percent
CoolFactorX == 90
CoolFactorY == 90
\* c_rep = 0.052 * kSquare, the factor 0.052 in thousandths
CRepMilli == 52
\* minDist = 10e-6: the smallest positive value of the grid
MinDist == 1
\* OGDF_SSE3_EXTENSIONS: the build compiles the vectorized body
OGDF_SSE3_EXTENSIONS == TRUE
\* m_useNodeWeight
UseNodeWeight == FALSE

(***************************************************************************)
(* Fixed-point arithmetic.                                                 *)
(***************************************************************************)
Max(a, b) == IF a >= b THEN a ELSE b
Min(a, b) == IF a <= b THEN a ELSE b

\* a / b for b > 0, rounded toward zero
TDiv(a, b) == IF a >= 0 THEN a \div b ELSE -((-a) \div b)

RECURSIVE SqrtSearch(_, _, _)
SqrtSearch(a, lo, hi) ==
    IF lo >= hi THEN lo
    ELSE LET mid == (lo + hi + 1) \div 2
         IN  IF mid * mid <= a THEN SqrtSearch(a, mid, hi)
                               ELSE SqrtSearch(a, lo, mid - 1)

\* sqrt(a) for a >= 0, rounded toward zero
Sqrt(a) == SqrtSearch(a, 0, Min(a, 46340))

SetMin(S) == CHOOSE a \in S : \A b \in S : a <= b
SetMax(S) == CHOOSE a \in S : \A b \in S : a >= b

RECURSIVE SeqMin(_, _)
SeqMin(s, j) == IF j = 1 THEN s[1] ELSE Min(s[j], SeqMin(s, j - 1))
RECURSIVE SeqMax(_, _)
SeqMax(s, j) == IF j = 1 THEN s[1] ELSE Max(s[j], SeqMax(s, j - 1))

(***************************************************************************)
(* Constants of mainStep / mainStep_sse3.                                  *)
(***************************************************************************)
kSquare == IdealEdgeLength * IdealEdgeLength
c_rep == TDiv(CRepMilli * kSquare, 1000)
minDistSquare == MinDist * MinDist
\* threshold = m_convTolerance * m_idealEdgeLength
threshold == TDiv(ConvTolerancePct * IdealEdgeLength, 100)

(***************************************************************************)
(* Repulsive pass.  RepTerm is one execution of the inner loop body        *)
(* (delta * weight[u] / distSquare, already scaled by c_rep); a component  *)
(* is selected by c = 1 (x) or c = 2 (y).                                  *)
(***************************************************************************)
\* faulty variant of DistSquare: the squared distance is not clamped
DistSquare_Unclamped(delta_x, delta_y) == delta_x * delta_x + delta_y * delta_y

\* distSquare = max(minDistSquare, delta_x * delta_x + delta_y * delta_y), the
\* divisor of the repulsive pass (each lane of mm_distSquare in mainStep_sse3)
DistSquare(delta_x, delta_y) ==
    Max(minDistSquare, delta_x * delta_x + delta_y * delta_y)

\* faulty variant of RepTerm: delta points from v to u, the force attracts
RepTerm_Reversed(x, y, wt, v, u, c) ==
    LET delta_x == x[u] - x[v]
        delta_y == y[u] - y[v]
        distSquare == DistSquare(delta_x, delta_y)
        delta == IF c = 1 THEN delta_x ELSE delta_y
    IN  TDiv(c_rep * delta * wt[u], distSquare)

RepTerm(x, y, wt, v, u, c) ==
    LET delta_x == x[v] - x[u]
        delta_y == y[v] - y[u]
        distSquare == DistSquare(delta_x, delta_y)
        delta == IF c = 1 THEN delta_x ELSE delta_y
    IN  TDiv(c_rep * delta * wt[u], distSquare)

RECURSIVE RepSum(_, _, _, _, _, _)
\* the inner loop "for u = 0 .. n-1, u != v" run for u = 1 .. j
RepSum(x, y, wt, v, j, c) ==
    IF j = 0 THEN 0
    ELSE RepSum(x, y, wt, v, j - 1, c)
         + (IF j = v THEN 0 ELSE RepTerm(x, y, wt, v, j, c))

\* disp_x, disp_y after the repulsive pass of mainStep
Repulsive(x, y, wt) ==
    [c \in 1..2 |-> [v \in 1..Len(x) |-> RepSum(x, y, wt, v, Len(x), c)]]

(***************************************************************************)
(* The vectorized repulsive pass: the loads of one v in program order,     *)
(* <<"pd", u>> a paired load of u, u+1 and <<"sd", u>> a single load of u  *)
(* (compact indices 0..n-1 as in the code).                                *)
(***************************************************************************)
RECURSIVE PdRun(_, _)
\* for (u = from; u + 1 < to; u += 2) compute_pd(u)
PdRun(from, to) ==
    IF from + 1 < to THEN << <<"pd", from>> >> \o PdRun(from + 2, to) ELSE << >>

\* the value of u when the loop "for (u = from; u + 1 < to; u += 2)" ends
PdEnd(from, to) == IF from + 1 < to THEN from + 2 * ((to - from) \div 2) ELSE from

\* faulty variant of SseLoads: "if (u == v) ++u" is missing
SseLoads_NoSkip(v, n) ==
    LET u1 == PdEnd(0, v)
        uStart == u1 + 2
        u3 == PdEnd(uStart, n)
    IN  PdRun(0, v)
        \o (IF u1 < n THEN << <<"sd", u1>> >> ELSE << >>)
        \o PdRun(uStart, n)
        \o (IF u3 < n THEN << <<"sd", u3>> >> ELSE << >>)

SseLoads(v, n) ==
    LET u1 == PdEnd(0, v)
        uStart == u1 + 2
        u2 == IF u1 = v THEN u1 + 1 ELSE u1
        u3 == PdEnd(uStart, n)
    IN  PdRun(0, v)
        \o (IF u2 < n THEN << <<"sd", u2>> >> ELSE << >>)
        \o PdRun(uStart, n)
        \o (IF u3 < n THEN << <<"sd", u3>> >> ELSE << >>)

\* the nodes u whose lanes the vectorized repulsive pass of v loads
SseLanes(v, n) ==
    LET loads == SseLoads(v - 1, n)
    IN  UNION { IF loads[j][1] = "pd" THEN { loads[j][2] + 1, loads[j][2] + 2 }
                                      ELSE { loads[j][2] + 1 } : j \in 1..Len(loads) }

RECURSIVE SseSum(_, _, _, _, _, _, _)
\* both lanes of mm_disp_xv (c = 1) or mm_disp_yv (c = 2) after the first j
\* loads, added by _mm_hadd_pd
SseSum(x, y, wt, v, loads, j, c) ==
    IF j = 0 THEN 0
    ELSE LET ld == loads[j]
             u == ld[2] + 1
         IN  SseSum(x, y, wt, v, loads, j - 1, c)
             + RepTerm(x, y, wt, v, u, c)
             + (IF ld[1] = "pd" THEN RepTerm(x, y, wt, v, u + 1, c) ELSE 0)

\* disp_x, disp_y after the repulsive pass of mainStep_sse3
Repulsive_sse3(x, y, wt) ==
    [c \in 1..2 |-> [v \in 1..Len(x) |->
        LET loads == SseLoads(v - 1, Len(x))
        IN  SseSum(x, y, wt, v, loads, Len(loads), c)]]

(***************************************************************************)
(* Attractive pass: the edges e = 1..j applied in order to disp.           *)
(***************************************************************************)
\* dist = max(minDist, sqrt(a * a + b * b)): the divisor-side distance of the
\* attractive pass (a, b = delta) and of the capping pass (a, b = disp[v])
Dist(a, b) == Max(MinDist, Sqrt(a * a + b * b))

RECURSIVE Attractive(_, _, _, _, _, _)
Attractive(x, y, src, tgt, disp, j) ==
    IF j = 0 THEN disp
    ELSE LET d == Attractive(x, y, src, tgt, disp, j - 1)
             v == src[j]
             u == tgt[j]
             delta_x == x[v] - x[u]
             delta_y == y[v] - y[u]
             dist == Dist(delta_x, delta_y)
             ax == TDiv(delta_x * dist, IdealEdgeLength)
             ay == TDiv(delta_y * dist, IdealEdgeLength)
             dx1 == [d[1] EXCEPT ![v] = @ - ax]
             dy1 == [d[2] EXCEPT ![v] = @ - ay]
         IN  << [dx1 EXCEPT ![u] = @ + ax], [dy1 EXCEPT ![u] = @ + ay] >>

(***************************************************************************)
(* Capping: the displacement applied to node v, <<xdisplace, ydisplace>>.  *)
(***************************************************************************)
\* faulty variant of Displace: the displacement is applied uncapped
Displace_NoCap(disp, v, tx, ty) == << disp[1][v], disp[2][v] >>

Displace(disp, v, tx, ty) ==
    LET dist == Dist(disp[1][v], disp[2][v])
    IN  << TDiv(disp[1][v] * Min(dist, tx), dist),
           TDiv(disp[2][v] * Min(dist, ty), dist) >>

\* eucdistsq > threshold * threshold for node v
Exceeds(d) == d[1] * d[1] + d[2] * d[2] > threshold * threshold

\* the three passes of one iteration of mainStep on positions x, y:
\* [x, y: the positions after the iteration, exceeded: some node's capped
\* displacement is above the threshold]
MainStepBody(x, y, wt, src, tgt, tx, ty) ==
    LET disp == Attractive(x, y, src, tgt, Repulsive(x, y, wt), Len(src))
        d == [v \in 1..Len(x) |-> Displace(disp, v, tx, ty)]
    IN  [x |-> [v \in 1..Len(x) |-> x[v] + d[v][1]],
         y |-> [v \in 1..Len(x) |-> y[v] + d[v][2]],
         exceeded |-> \E v \in 1..Len(x) : Exceeds(d[v])]

\* the three passes of one iteration of mainStep_sse3 (paired capping for
\* v, v+1 and the odd last node: the same formula for every node); the code
\* does not compute exceeded on this path, it is recorded for the properties
MainStepBody_sse3(x, y, wt, src, tgt, tx, ty) ==
    LET disp == Attractive(x, y, src, tgt, Repulsive_sse3(x, y, wt), Len(src))
        d == [v \in 1..Len(x) |-> Displace(disp, v, tx, ty)]
    IN  [x |-> [v \in 1..Len(x) |-> x[v] + d[v][1]],
         y |-> [v \in 1..Len(x) |-> y[v] + d[v][2]],
         exceeded |-> \E v \in 1..Len(x) : Exceeds(d[v])]

(***************************************************************************)
(* Cooling.                                                                *)
(***************************************************************************)
\* mylog2(cF), in thousandths
mylog2(c) ==
    << 0, 1000, 1584, 2000, 2321, 2584, 2807, 3000,
       3169, 3321, 3459, 3584, 3700, 3807, 3906, 4000 >>[c]

\* faulty variant of coolWith: Factor mode divides by the cool factors
coolWith_Divides(fx, fy, mode, txNull, tyNull, t_x, t_y, c) ==
    IF mode = "Factor"
    THEN << TDiv(t_x * 100, fx), TDiv(t_y * 100, fy), c >>
    ELSE LET cFLog == mylog2(c)
         IN  IF cFLog # 0
             THEN << TDiv(txNull * 1000, cFLog), TDiv(tyNull * 1000, cFLog), c + 1 >>
             ELSE << t_x, t_y, c + 1 >>

\* faulty variant of coolWith: Logarithmic mode divides the current
\* temperatures instead of m_txNull, m_tyNull
coolWith_FromCurrent(fx, fy, mode, txNull, tyNull, t_x, t_y, c) ==
    IF mode = "Factor"
    THEN << TDiv(t_x * fx, 100), TDiv(t_y * fy, 100), c >>
    ELSE LET cFLog == mylog2(c)
         IN  IF cFLog # 0
             THEN << TDiv(t_x * 1000, cFLog), TDiv(t_y * 1000, cFLog), c + 1 >>
             ELSE << t_x, t_y, c + 1 >>

\* faulty variant of coolWith: the temperatures are left as they are
coolWith_Keeps(fx, fy, mode, txNull, tyNull, t_x, t_y, c) == << t_x, t_y, c >>

\* cool(tx, ty, cF) with m_coolFactor_x = fx, m_coolFactor_y = fy (in
\* percent): the new <<tx, ty, cF>>
coolWith(fx, fy, mode, txNull, tyNull, t_x, t_y, c) ==
    IF mode = "Factor"
    THEN << TDiv(t_x * fx, 100), TDiv(t_y * fy, 100), c >>
    ELSE LET cFLog == mylog2(c)
         IN  IF cFLog # 0
             THEN << TDiv(txNull * 1000, cFLog), TDiv(tyNull * 1000, cFLog), c + 1 >>
             ELSE << t_x, t_y, c + 1 >>


(***************************************************************************)
(* Layout Initializer: initialize(component) on positions x, y.            *)
(***************************************************************************)
\* w = xmax - xmin + m_idealEdgeLength (and h, on the y coordinates): the
\* divisor of h / w and W / w (of n / ratio, ratio = h / w, and H / h)
InitExtent(x, k) == SeqMax(x, Len(x)) - SeqMin(x, Len(x)) + k

\* initialize with m_idealEdgeLength = k, for k > 0 or nodes that differ in
\* both coordinates (so that no divisor is zero)
InitializeBodyK(x, y, k) ==
    LET n == Len(x)
        xmin == SeqMin(x, n)
        ymin == SeqMin(y, n)
        w == InitExtent(x, k)
        h == InitExtent(y, k)
        \* ratio = h / w; W = sqrt(n / ratio) * k; H = ratio * W
        W == Sqrt(TDiv(n * w * k * k, h))
        H == TDiv(h * W, w)
    IN  [x |-> [v \in 1..n |-> TDiv((x[v] - xmin) * W, w)],   \* fx = W / w
         y |-> [v \in 1..n |-> TDiv((y[v] - ymin) * H, h)],   \* fy = H / h
         txNull |-> TDiv(W, 8),
         tyNull |-> TDiv(H, 8),
         W |-> W,
         H |-> H]

\* faulty variant of InitializeBody: the minimum corner is not translated
\* to the origin
InitializeBody_NoShift(x, y) ==
    LET r == InitializeBodyK(x, y, IdealEdgeLength)
        w == InitExtent(x, IdealEdgeLength)
        h == InitExtent(y, IdealEdgeLength)
    IN  [r EXCEPT !.x = [v \in 1..Len(x) |-> TDiv(x[v] * r.W, w)],
                  !.y = [v \in 1..Len(x) |-> TDiv(y[v] * r.H, h)]]

InitializeBody(x, y) == InitializeBodyK(x, y, IdealEdgeLength)

(***************************************************************************)
(* The input graph and its attributes.                                     *)
(***************************************************************************)
\* AG.width(v), AG.height(v): the node sizes of the input (even, so that
\* width / 2 and height / 2 are on the grid)
Width(v) == 20 * (v - 1)
Height(v) == 10 * (v % 2)

\* m_ga->weight(v)
Weight(v) == v

RECURSIVE LinkEdges(_, _)
\* the edges <<j, j+1>>, j in links, j <= m, by increasing j
LinkEdges(links, m) ==
    IF m <= 0 THEN << >>
    ELSE LinkEdges(links, m - 1) \o (IF m \in links THEN << <<m, m + 1>> >> ELSE << >>)

\* the input graphs: nodes 1..n (v->index() = v), edges between neighbours
Graphs(n) == { LinkEdges(links, n - 1) : links \in SUBSET (1..(n - 1)) }

RECURSIVE Reach(_, _, _)
\* the nodes connected to a node of S in the graph (n, edges)
Reach(S, n, edges) ==
    LET T == S \cup { v \in 1..n : \E e \in 1..Len(edges) :
                        \/ edges[e][1] \in S /\ edges[e][2] = v
                        \/ edges[e][2] \in S /\ edges[e][1] = v }
    IN  IF T = S THEN S ELSE Reach(T, n, edges)

\* connectedComponents(G, component): component[v] in 1..numCC, the
\* components numbered in the order of their least nodes
connectedComponents(n, edges) ==
    LET least == [v \in 1..n |->
                    LET R == Reach({v}, n, edges)
                    IN  CHOOSE u \in R : \A t \in R : u <= t]
    IN  [v \in 1..n |-> Cardinality({ least[u] : u \in { t \in 1..n : least[t] <= least[v] } })]

RECURSIVE NodesInCC(_, _, _)
\* m_nodesInCC[c]: the nodes v <= m of component c, in the order of G.nodes
NodesInCC(component, c, m) ==
    IF m = 0 THEN << >>
    ELSE NodesInCC(component, c, m - 1) \o (IF component[m] = c THEN <<m>> ELSE << >>)

RECURSIVE AdjTwins(_, _, _)
\* the twin nodes of v's adjacency entries among the edges 1..j
AdjTwins(edges, v, j) ==
    IF j = 0 THEN << >>
    ELSE AdjTwins(edges, v, j - 1)
         \o (IF edges[j][1] = v THEN << edges[j][2] >> ELSE << >>)
         \o (IF edges[j][2] = v THEN << edges[j][1] >> ELSE << >>)

RECURSIVE CCEdges_BothEnds(_, _, _, _)
\* faulty variant of CCEdges: the test v->index() < w->index() is missing,
\* every adjacency entry is stored
CCEdges_BothEnds(edges, nodes, mapNode, j) ==
    IF j = 0 THEN << >>
    ELSE LET v == nodes[j]
             tw == AdjTwins(edges, v, Len(edges))
         IN  CCEdges_BothEnds(edges, nodes, mapNode, j - 1)
             \o [e \in 1..Len(tw) |-> <<j, mapNode[tw[e]]>>]

RECURSIVE CCEdges_GlobalIndex(_, _, _, _)
\* faulty variant of CCEdges: m_tgt holds w->index() instead of m_mapNode[w]
CCEdges_GlobalIndex(edges, nodes, mapNode, j) ==
    IF j = 0 THEN << >>
    ELSE LET v == nodes[j]
             tw == AdjTwins(edges, v, Len(edges))
             own == SelectSeq(tw, LAMBDA w : v < w)
         IN  CCEdges_GlobalIndex(edges, nodes, mapNode, j - 1)
             \o [e \in 1..Len(own) |-> <<j, own[e]>>]

RECURSIVE CCEdges(_, _, _, _)
\* the second loop of initCC run for the first j nodes of the component:
\* the pairs <<m_src[e], m_tgt[e]>>
CCEdges(edges, nodes, mapNode, j) ==
    IF j = 0 THEN << >>
    ELSE LET v == nodes[j]
             tw == AdjTwins(edges, v, Len(edges))
             own == SelectSeq(tw, LAMBDA w : v < w)
         IN  CCEdges(edges, nodes, mapNode, j - 1)
             \o [e \in 1..Len(own) |-> <<j, mapNode[own[e]]>>]

(***************************************************************************)
(* The packer (TileToRowsCCPacker::call): the boxes are placed in rows in  *)
(* their order; rows is the set of boxes that start a new row.             *)
(***************************************************************************)
RECURSIVE PackRows(_, _, _)
\* <<offsets of boxes 1..j, x of the next box in the row, y of the row,
\*   height of the row>>
PackRows(box, rows, j) ==
    IF j = 0 THEN << << >>, 0, 0, 0 >>
    ELSE LET p == PackRows(box, rows, j - 1)
             newRow == j \in rows
             ox == IF newRow THEN 0 ELSE p[2]
             oy == IF newRow THEN p[3] + p[4] ELSE p[3]
             rh == IF newRow THEN box[j][2] ELSE Max(p[4], box[j][2])
         IN  << Append(p[1], <<ox, oy>>), ox + box[j][1], oy, rh >>

(***************************************************************************)
(* The aligned buffers: System::alignedMemoryAlloc16 and alignedMemoryFree.*)
(* A heap is [owner, frees, ptr, peak]: owner[id] is the pointer variable  *)
(* buffer id was allocated for, frees[id] the number of times it has been  *)
(* freed, ptr[b] the buffer the pointer b holds (0: nullptr; a pointer     *)
(* keeps its value when its buffer is freed), peak the largest number of   *)
(* buffers of one pointer variable that were allocated at the same time.   *)
(***************************************************************************)
\* the pointers of the ArrayGraph and of the main step
ViewBuffers == << "m_orig", "m_x", "m_y", "m_nodeWeight", "m_src", "m_tgt" >>
DispBuffers == << "disp_x", "disp_y" >>
Buffers == { ViewBuffers[j] : j \in 1..Len(ViewBuffers) }
              \cup { DispBuffers[j] : j \in 1..Len(DispBuffers) }

\* nothing allocated, every pointer nullptr (ArrayGraph's constructor)
EmptyHeap ==
    [owner |-> << >>, frees |-> << >>, ptr |-> [b \in Buffers |-> 0], peak |-> 0]

\* the buffers allocated and not freed
Live(hp) == { id \in 1..Len(hp.owner) : hp.frees[id] = 0 }

\* b = alignedMemoryAlloc16(..)
Alloc(hp, b) ==
    LET id == Len(hp.owner) + 1
        now == Cardinality({ d \in Live(hp) : hp.owner[d] = b }) + 1
    IN  [owner |-> Append(hp.owner, b),
         frees |-> Append(hp.frees, 0),
         ptr |-> [hp.ptr EXCEPT ![b] = id],
         peak |-> IF now > hp.peak THEN now ELSE hp.peak]

\* alignedMemoryFree(b): nothing for nullptr
Free(hp, b) ==
    IF hp.ptr[b] = 0 THEN hp
    ELSE [hp EXCEPT !.frees[hp.ptr[b]] = @ + 1]

RECURSIVE AllocAll(_, _, _)
\* the first j pointers of bs allocated in order
AllocAll(hp, bs, j) == IF j = 0 THEN hp ELSE Alloc(AllocAll(hp, bs, j - 1), bs[j])

RECURSIVE FreeAll(_, _, _)
\* the first j pointers of bs freed in order
FreeAll(hp, bs, j) == IF j = 0 THEN hp ELSE Free(FreeAll(hp, bs, j - 1), bs[j])

\* faulty variant of ReleaseView: initCC does not free the previous buffers
ReleaseView_Leak(hp) == hp

\* initCC: the six alignedMemoryFree calls at its entry
ReleaseView(hp) == FreeAll(hp, ViewBuffers, Len(ViewBuffers))

\* initCC: the allocations of m_orig, m_x, m_y, m_nodeWeight, m_src, m_tgt
AllocView(hp) == AllocAll(hp, ViewBuffers, Len(ViewBuffers))

\* ~ArrayGraph
DestroyArrayGraph(hp) == FreeAll(hp, ViewBuffers, Len(ViewBuffers))

\* the main step: allocation and release of disp_x, disp_y
AllocDisp(hp) == AllocAll(hp, DispBuffers, Len(DispBuffers))
FreeDisp(hp) == FreeAll(hp, DispBuffers, Len(DispBuffers))

(***************************************************************************)
(* State.                                                                  *)
(***************************************************************************)
VARIABLES
    \* the input graph G: nodes 1..G_n, edges G_edges[e] = <<source, target>>
    G_n, G_edges,
    \* the GraphAttributes AG: node coordinates, and whether clearAllBends ran
    AG_x, AG_y, bendsCleared,
    \* the configuration of the call
    m_iterations, m_checkConvergence, m_coolingFunction, haveSSE3,
    m_idealEdgeLength, m_coolFactor_x, m_coolFactor_y,
    \* the ArrayGraph component
    m_numCC, m_nodesInCC, m_mapNode,
    m_numNodes, m_numEdges, m_orig, m_src, m_tgt, m_x, m_y, m_nodeWeight,
    \* solver state: m_txNull, m_tyNull and the locals of the main-step loop
    \* (itCount is mainStep's itCount and mainStep_sse3's loop variable i)
    m_txNull, m_tyNull, tx, ty, cF, converged, itCount,
    \* call(): the place in the code, the component index i (1..numCC), the
    \* recorded boxes and the packer's offsets
    pc, i, boundingBox, offset,
    \* the OpenMP team of the main step (used when the engine is followed
    \* worker by worker):
    \*   maxThreads  omp_get_max_threads()
    \*   wpc[w]      the place of worker w in the loop body (worker 1 is the
    \*               thread that called the engine)
    \*   priv[w]     the variables private to worker w in mainStep_sse3's
    \*               parallel region: [i, tx, ty, cF]
    \*   ws          the worksharing constructs of the running iteration:
    \*               split, done: the assignment of the loop's indices to the
    \*               workers and the indices executed; attBy, attE: the worker
    \*               executing the attractive pass and the edges it has
    \*               applied; oddBy: the worker that took "single nowait"
    \*   disp_x, disp_y   the displacement buffers
    maxThreads, wpc, priv, ws, disp_x, disp_y,
    \* history of the team, read by the properties only:
    \*   acc         the accesses of the running pass to shared locations,
    \*               <<worker, "r" or "w", location>>
    \*   g           startX, startY: the positions when the running iteration
    \*               started; rep, cap: the <<iteration, node>> whose repulsive
    \*               displacement was stored / that were capped and moved;
    \*               attLog: the <<iteration, edge, worker>> of the running
    \*               iteration's attractive pass, in order
    acc, g,
    \* the inner loops of the vectorized repulsive pass for one v (used when
    \* they are followed load by load): [n, v: the node count and the node
    \* (0-based), k: the loads executed, seen[u]: how often the lane of index
    \* u was loaded]
    lanes,
    \* the aligned buffers of the ArrayGraph and of the main step
    heap,
    \* the int arithmetic of mainStep_sse3's team size (used when it is
    \* followed at the width of int): [n: the node count, sq: the value the
    \* build has for n * n, rep: nThreadsRep, done: nThreadsRep is computed]
    threads,
    \* QPartitioning (used when its calls are followed):
    \*   Q_nodes            the nodes of the graph that exist
    \*   Q_degree[n]        n->degree()
    \*   partitions[n]      the partition of node n, or NO_PARTITION
    \*   partitioned_nodes[p]   the list of the nodes of partition p
    \*   partition_next_id, partition_table_size, q_vertex_count
    Q_nodes, Q_degree, partitions, partitioned_nodes, partition_next_id,
    partition_table_size, q_vertex_count,
    \* history of the run, read by the properties only:
    \*   inX, inY    the coordinates AG held when call() started
    \*   initX/Y     the positions of the current component when the engine
    \*               was entered (after initialize), or after initCC
    \*   prevX/Y     the positions before the last main step
    \*   steps       main steps executed for the current component
    \*   exceeded    some node was above the threshold in the last main step
    \*   apart       after some main step two nodes had different positions
    \*   initCalls, scalarCalls, sse3Calls   calls of initialize, mainStep and
    \*               mainStep_sse3 for the current component
    \*   packerCalls calls of the packer
    \*   prevTx/Ty   the temperatures before the last call of cool
    \*   cools       calls of cool for the current component
    \*   stale       the solver state the components processed before have
    \*               left, as it was when initCC ran for the current component
    h

graphVars == << G_n, G_edges >>
cfgVars == << m_iterations, m_checkConvergence, m_coolingFunction, haveSSE3,
             m_idealEdgeLength, m_coolFactor_x, m_coolFactor_y >>
agVars == << AG_x, AG_y, bendsCleared >>
ccVars == << m_numCC, m_nodesInCC >>
viewVars == << m_mapNode, m_numNodes, m_numEdges, m_orig, m_src, m_tgt, m_x, m_y,
               m_nodeWeight >>
nullVars == << m_txNull, m_tyNull >>
loopVars == << tx, ty, cF, converged, itCount >>
callVars == << i, boundingBox, offset >>
ompVars == << maxThreads, wpc, priv, ws, disp_x, disp_y, acc, g >>
loadVars == << lanes >>
heapVars == << heap >>
intVars == << threads >>
qVars == << Q_nodes, Q_degree, partitions, partitioned_nodes, partition_next_id,
           partition_table_size, q_vertex_count >>
vars == << graphVars, cfgVars, agVars, ccVars, viewVars, nullVars, loopVars,
           callVars, ompVars, loadVars, heapVars, intVars, qVars, pc, h >>

\* cool(tx, ty, cF) with the configured cool factors
cool(mode, txNull, tyNull, t_x, t_y, c) ==
    coolWith(m_coolFactor_x, m_coolFactor_y, mode, txNull, tyNull, t_x, t_y, c)

\* the values of the configuration a call is drawn from
Config ==
    /\ m_iterations \in 0..MaxIter
    /\ m_checkConvergence \in BOOLEAN
    /\ m_coolingFunction \in {"Factor", "Logarithmic"}
    /\ haveSSE3 \in BOOLEAN
    /\ m_coolFactor_x = CoolFactorX
    /\ m_coolFactor_y = CoolFactorY

\* the solver state before any component was processed
NoLeftover ==
    [txNull |-> 0, tyNull |-> 0, tx |-> 0, ty |-> 0, cF |-> 0,
     converged |-> FALSE, itCount |-> 0]

History(x, y) ==
    [inX |-> x, inY |-> y, initX |-> << >>, initY |-> << >>,
     prevX |-> << >>, prevY |-> << >>, steps |-> 0, exceeded |-> FALSE,
     apart |-> FALSE, initCalls |-> 0, scalarCalls |-> 0, sse3Calls |-> 0,
     packerCalls |-> 0, prevTx |-> 0, prevTy |-> 0, cools |-> 0,
     stale |-> NoLeftover]

\* the vectorized repulsive pass is not followed load by load
NoPartitioning ==
    /\ Q_nodes = {} /\ Q_degree = << >>
    /\ partitions = << >> /\ partitioned_nodes = << >>
    /\ partition_next_id = 0 /\ partition_table_size = 0 /\ q_vertex_count = 0

NoRequest == threads = [n |-> 0, sq |-> 0, rep |-> 0, done |-> FALSE]

NoLoads == lanes = [n |-> 0, v |-> 0, k |-> 0, seen |-> << >>]

\* no team: the engine is not followed worker by worker
NoTeam ==
    /\ maxThreads = 1
    /\ wpc = << >> /\ priv = << >>
    /\ ws = [split |-> << >>, done |-> {}, attBy |-> 0, attE |-> 0, oddBy |-> 0]
    /\ disp_x = << >> /\ disp_y = << >>
    /\ acc = {}
    /\ g = [startX |-> << >>, startY |-> << >>, rep |-> {}, cap |-> {},
            attLog |-> << >>]

(***************************************************************************)
(* Init: a graph with its attributes and a configured SpringEmbedderFRExact*)
(* on which call(AG) is about to run.                                      *)
(***************************************************************************)
Init ==
    /\ G_n \in 0..MaxNodes
    /\ G_edges \in Graphs(G_n)
    /\ \E pos \in [1..G_n -> Points] :
          /\ AG_x = [v \in 1..G_n |-> pos[v][1]]
          /\ AG_y = [v \in 1..G_n |-> pos[v][2]]
    /\ bendsCleared = FALSE
    /\ Config
    /\ m_idealEdgeLength = IdealEdgeLength
    /\ NoTeam /\ NoLoads /\ heap = EmptyHeap /\ NoRequest /\ NoPartitioning
    /\ m_numCC = 0 /\ m_nodesInCC = << >> /\ m_mapNode = << >>
    /\ m_numNodes = 0 /\ m_numEdges = 0
    /\ m_orig = << >> /\ m_src = << >> /\ m_tgt = << >>
    /\ m_x = << >> /\ m_y = << >> /\ m_nodeWeight = << >>
    /\ m_txNull = 0 /\ m_tyNull = 0
    /\ tx = 0 /\ ty = 0 /\ cF = 0 /\ converged = FALSE /\ itCount = 0
    /\ pc = "call" /\ i = 0 /\ boundingBox = << >> /\ offset = << >>
    /\ h = History(AG_x, AG_y)

(***************************************************************************)
(* call(): the empty-graph return; otherwise clearAllBends and the         *)
(* construction of the ArrayGraph (connected components, m_nodesInCC).     *)
(***************************************************************************)
\* call() past the empty-graph test: lines 174-184
CallBody ==
    LET component == connectedComponents(G_n, G_edges)
        numCC == Cardinality({ component[v] : v \in 1..G_n })
    IN  /\ bendsCleared' = TRUE
        /\ m_numCC' = numCC
        /\ m_nodesInCC' = [c \in 1..numCC |-> NodesInCC(component, c, G_n)]
        /\ m_mapNode' = [v \in 1..G_n |-> 0]
        /\ boundingBox' = [c \in 1..numCC |-> <<0, 0>>]
        /\ i' = 1
        /\ pc' = IF i' <= numCC THEN "initCC" ELSE "pack"
        /\ UNCHANGED << AG_x, AG_y, offset >>

\* faulty variant of Call: the test G.empty() is missing
Call_NoEmptyCheck ==
    /\ pc = "call"
    /\ CallBody
    /\ UNCHANGED << graphVars, cfgVars, intVars, qVars, loadVars, heapVars, ompVars, m_numNodes, m_numEdges, m_orig, m_src,
                    m_tgt, m_x, m_y, m_nodeWeight, nullVars, loopVars, h >>

Call ==
    /\ pc = "call"
    /\ IF G_n = 0
       THEN /\ pc' = "done"
            /\ UNCHANGED << agVars, ccVars, m_mapNode, callVars >>
       ELSE CallBody
    /\ UNCHANGED << graphVars, cfgVars, intVars, qVars, loadVars, heapVars, ompVars, m_numNodes, m_numEdges, m_orig, m_src,
                    m_tgt, m_x, m_y, m_nodeWeight, nullVars, loopVars, h >>

(***************************************************************************)
(* component.initCC(i), and the test numberOfNodes() >= 2 of call().       *)
(***************************************************************************)
\* faulty variant of EngineWanted: the engine also runs on a single node
EngineWanted_Single(n) == n >= 1

\* call(): if (component.numberOfNodes() >= 2)
EngineWanted(n) == n >= 2

\* initCC(c): the arrays of the view
InitCCView(c) ==
    LET nodes == m_nodesInCC[c]
        n == Len(nodes)
        mapNode == [v \in 1..G_n |->
                      IF \E j \in 1..n : nodes[j] = v
                      THEN CHOOSE j \in 1..n : nodes[j] = v
                      ELSE m_mapNode[v]]
        es == CCEdges(G_edges, nodes, mapNode, n)
    IN  /\ m_numNodes' = n
        /\ m_orig' = nodes
        /\ m_mapNode' = mapNode
        /\ m_x' = [j \in 1..n |-> AG_x[nodes[j]]]
        /\ m_y' = [j \in 1..n |-> AG_y[nodes[j]]]
        /\ m_nodeWeight' = [j \in 1..n |->
                              IF UseNodeWeight THEN Weight(nodes[j]) ELSE 1]
        /\ m_numEdges' = Len(es)
        /\ m_src' = [e \in 1..Len(es) |-> es[e][1]]
        /\ m_tgt' = [e \in 1..Len(es) |-> es[e][2]]

\* the history when initCC has run
Viewed ==
    [h EXCEPT !.initX = m_x', !.initY = m_y', !.prevX = m_x', !.prevY = m_y',
              !.steps = 0, !.exceeded = FALSE, !.apart = FALSE, !.cools = 0,
              !.stale = [txNull |-> m_txNull, tyNull |-> m_tyNull,
                         tx |-> tx, ty |-> ty, cF |-> cF,
                         converged |-> converged, itCount |-> itCount],
              !.initCalls = 0, !.scalarCalls = 0, !.sse3Calls = 0]

InitCC ==
    /\ pc = "initCC"
    /\ InitCCView(i)
    /\ pc' = IF EngineWanted(m_numNodes') THEN "initialize" ELSE "writeback"
    /\ h' = Viewed
    /\ UNCHANGED << graphVars, cfgVars, intVars, qVars, loadVars, ompVars, agVars, ccVars, nullVars, loopVars, callVars >>
    /\ heap' = AllocView(ReleaseView(heap))

(***************************************************************************)
(* initialize(component), and the choice of the main-step path in call().  *)
(***************************************************************************)
Initialize ==
    /\ pc = "initialize"
    /\ LET r == InitializeBody(m_x, m_y)
       IN  /\ m_x' = r.x
           /\ m_y' = r.y
           /\ m_txNull' = r.txNull
           /\ m_tyNull' = r.tyNull
    /\ pc' = IF haveSSE3 THEN "mainStep_sse3" ELSE "mainStep"
    /\ h' = [h EXCEPT !.initX = m_x', !.initY = m_y', !.prevX = m_x', !.prevY = m_y',
                      !.initCalls = @ + 1]
    /\ UNCHANGED << graphVars, cfgVars, intVars, qVars, loadVars, heapVars, ompVars, agVars, ccVars, m_mapNode, m_numNodes,
                    m_numEdges, m_orig, m_src, m_tgt, m_nodeWeight, loopVars,
                    callVars >>

(***************************************************************************)
(* mainStep: entry (the locals before the loop).                           *)
(***************************************************************************)
\* faulty variant of ConvergedAtEntry: the body runs before the budget is tested
ConvergedAtEntry_False == FALSE

\* mainStep: bool converged = (m_iterations == 0)
ConvergedAtEntry == m_iterations = 0

\* faulty variant of MainStepEnter: tx, ty and cF keep what the previous
\* component left
MainStepEnter_KeepsLocals ==
    /\ pc = "mainStep"
    /\ converged' = ConvergedAtEntry
    /\ itCount' = 1
    /\ pc' = "mainStep_loop"
    /\ h' = [h EXCEPT !.scalarCalls = @ + 1]
    /\ UNCHANGED << graphVars, cfgVars, intVars, qVars, loadVars, ompVars, agVars, ccVars, viewVars, nullVars,
                    tx, ty, cF, callVars >>
    /\ heap' = AllocDisp(heap)

MainStepEnter ==
    /\ pc = "mainStep"
    /\ tx' = m_txNull
    /\ ty' = m_tyNull
    /\ cF' = 1
    /\ converged' = ConvergedAtEntry
    /\ itCount' = 1
    /\ pc' = "mainStep_loop"
    /\ h' = [h EXCEPT !.scalarCalls = @ + 1]
    /\ UNCHANGED << graphVars, cfgVars, intVars, qVars, loadVars, ompVars, agVars, ccVars, viewVars, nullVars, callVars >>
    /\ heap' = AllocDisp(heap)

\* faulty variant of BudgetExhausted: the loop runs one iteration too many
BudgetExhausted_OffByOne(itc) == itc > m_iterations + 1

\* mainStep: itCount > m_iterations
BudgetExhausted(itc) == itc > m_iterations

\* faulty variant of ConvergedAfterCapping: a node above the threshold does not
\* reset the flag
ConvergedAfterCapping_NoReset(exceeded, conv) ==
    IF m_checkConvergence THEN TRUE ELSE conv

\* mainStep: converged after the capping loop of one iteration that started
\* with converged = conv: set to true at the top of the body when convergence
\* is checked, reset to false by every node whose capped displacement is
\* above the threshold
ConvergedAfterCapping(exceeded, conv) ==
    IF exceeded THEN FALSE
    ELSE IF m_checkConvergence THEN TRUE ELSE conv

\* the history after a main step that led from positions m_x, m_y to x, y
Stepped(x, y, exceeded) ==
    [h EXCEPT !.prevX = m_x, !.prevY = m_y, !.steps = @ + 1,
              !.prevTx = tx, !.prevTy = ty, !.cools = @ + 1,
              !.exceeded = exceeded,
              !.apart = @ \/ \E u, v \in 1..Len(x) : x[u] # x[v] \/ y[u] # y[v]]

(***************************************************************************)
(* mainStep: one execution of the body of "while (!converged)".            *)
(***************************************************************************)
MainStepIter ==
    /\ pc = "mainStep_loop"
    /\ ~converged
    /\ LET r == MainStepBody(m_x, m_y, m_nodeWeight, m_src, m_tgt, tx, ty)
           conv == ConvergedAfterCapping(r.exceeded, converged)
           t == cool(m_coolingFunction, m_txNull, m_tyNull, tx, ty, cF)
       IN  /\ m_x' = r.x
           /\ m_y' = r.y
           /\ tx' = t[1]
           /\ ty' = t[2]
           /\ cF' = t[3]
           /\ itCount' = itCount + 1
           /\ converged' = (BudgetExhausted(itCount') \/ conv)
           /\ h' = Stepped(r.x, r.y, r.exceeded)
    /\ UNCHANGED << graphVars, cfgVars, intVars, qVars, loadVars, heapVars, ompVars, agVars, ccVars, m_mapNode, m_numNodes,
                    m_numEdges, m_orig, m_src, m_tgt, m_nodeWeight, nullVars,
                    callVars, pc >>

(***************************************************************************)
(* mainStep: the loop ends, the displacement buffers are freed.            *)
(***************************************************************************)
MainStepExit ==
    /\ pc = "mainStep_loop"
    /\ converged
    /\ pc' = "writeback"
    /\ UNCHANGED << graphVars, cfgVars, intVars, qVars, loadVars, ompVars, agVars, ccVars, viewVars, nullVars,
                    loopVars, callVars, h >>
    /\ heap' = FreeDisp(heap)

(***************************************************************************)
(* mainStep as a function: the loop run from positions x, y with the       *)
(* locals t_x, t_y, c, itc, conv; count main steps have been executed.     *)
(* The result is [x, y: the final positions, steps: the main steps run].   *)
(***************************************************************************)
RECURSIVE MainStepRun(_, _, _, _, _, _, _, _)
MainStepRun(x, y, t_x, t_y, c, itc, conv, count) ==
    IF conv THEN [x |-> x, y |-> y, steps |-> count]
    ELSE LET r == MainStepBody(x, y, m_nodeWeight, m_src, m_tgt, t_x, t_y)
             t == cool(m_coolingFunction, m_txNull, m_tyNull, t_x, t_y, c)
         IN  MainStepRun(r.x, r.y, t[1], t[2], t[3], itc + 1,
                         BudgetExhausted(itc + 1)
                             \/ ConvergedAfterCapping(r.exceeded, conv),
                         count + 1)

\* mainStep(C) on the current component with positions x, y
mainStep(x, y) == MainStepRun(x, y, m_txNull, m_tyNull, 1, 1, ConvergedAtEntry, 0)

(***************************************************************************)
(* mainStep_sse3: entry; without OGDF_SSE3_EXTENSIONS it is mainStep(C).   *)
(***************************************************************************)
Sse3Enter ==
    /\ pc = "mainStep_sse3"
    /\ IF OGDF_SSE3_EXTENSIONS
       THEN /\ tx' = m_txNull
            /\ ty' = m_tyNull
            /\ cF' = 1
            /\ itCount' = 1
            /\ pc' = "sse3_loop"
            /\ UNCHANGED converged
       ELSE /\ pc' = "mainStep"
            /\ UNCHANGED loopVars
    /\ h' = [h EXCEPT !.sse3Calls = @ + 1]
    /\ UNCHANGED << graphVars, cfgVars, intVars, qVars, loadVars, ompVars, agVars, ccVars, viewVars, nullVars, callVars >>
    /\ heap' = (IF OGDF_SSE3_EXTENSIONS THEN AllocDisp(heap) ELSE heap)

(***************************************************************************)
(* mainStep_sse3: one execution of the body of                             *)
(* "for (int i = 1; i <= m_iterations; i++)".                              *)
(***************************************************************************)
Sse3Iter ==
    /\ pc = "sse3_loop"
    /\ itCount <= m_iterations
    /\ LET r == MainStepBody_sse3(m_x, m_y, m_nodeWeight, m_src, m_tgt, tx, ty)
           t == cool(m_coolingFunction, m_txNull, m_tyNull, tx, ty, cF)
       IN  /\ m_x' = r.x
           /\ m_y' = r.y
           /\ tx' = t[1]
           /\ ty' = t[2]
           /\ cF' = t[3]
           /\ itCount' = itCount + 1
           /\ h' = Stepped(r.x, r.y, r.exceeded)
    /\ UNCHANGED << graphVars, cfgVars, intVars, qVars, loadVars, heapVars, ompVars, agVars, ccVars, m_mapNode, m_numNodes,
                    m_numEdges, m_orig, m_src, m_tgt, m_nodeWeight, nullVars,
                    converged, callVars, pc >>

(***************************************************************************)
(* mainStep_sse3: the loop ends, the displacement buffers are freed.       *)
(***************************************************************************)
Sse3Exit ==
    /\ pc = "sse3_loop"
    /\ itCount > m_iterations
    /\ pc' = "writeback"
    /\ UNCHANGED << graphVars, cfgVars, intVars, qVars, loadVars, ompVars, agVars, ccVars, viewVars, nullVars,
                    loopVars, callVars, h >>
    /\ heap' = FreeDisp(heap)

(***************************************************************************)
(* call(): write-back of component i, its bounding box, the translation    *)
(* to the corner (m_minDistCC, m_minDistCC), and the loop's increment.     *)
(***************************************************************************)
\* the box <<minX, maxX, minY, maxY>> after the write-back loop has run for
\* the compact indices 1..j
RECURSIVE WriteBackBox_Centres(_, _, _, _)
\* faulty variant of WriteBackBox: the box of the node centres, widths and
\* heights left out
WriteBackBox_Centres(x, y, orig, j) ==
    IF j = 0 THEN << x[1], x[1], y[1], y[1] >>
    ELSE LET b == WriteBackBox_Centres(x, y, orig, j - 1)
         IN  << IF x[j] < b[1] THEN x[j] ELSE b[1],
                IF x[j] > b[2] THEN x[j] ELSE b[2],
                IF y[j] < b[3] THEN y[j] ELSE b[3],
                IF y[j] > b[4] THEN y[j] ELSE b[4] >>

RECURSIVE WriteBackBox(_, _, _, _)
WriteBackBox(x, y, orig, j) ==
    IF j = 0 THEN << x[1], x[1], y[1], y[1] >>
    ELSE LET b == WriteBackBox(x, y, orig, j - 1)
             v == orig[j]
             hw == TDiv(Width(v), 2)
             hh == TDiv(Height(v), 2)
         IN  << IF x[j] - hw < b[1] THEN x[j] - hw ELSE b[1],
                IF x[j] + hw > b[2] THEN x[j] + hw ELSE b[2],
                IF y[j] - hh < b[3] THEN y[j] - hh ELSE b[3],
                IF y[j] + hh > b[4] THEN y[j] + hh ELSE b[4] >>

\* faulty variant of ShiftedMin: the box is not enlarged by m_minDistCC
ShiftedMin_NoMargin(m) == m

\* call(): minX -= m_minDistCC; minY -= m_minDistCC
ShiftedMin(m) == m - MinDistCC

WriteBack ==
    /\ pc = "writeback"
    /\ LET b == WriteBackBox(m_x, m_y, m_orig, m_numNodes)
           minX == ShiftedMin(b[1])
           minY == ShiftedMin(b[3])
           InCC(v) == \E j \in 1..m_numNodes : m_orig[j] = v
       IN  /\ AG_x' = [v \in 1..G_n |-> IF InCC(v) THEN m_x[m_mapNode[v]] - minX
                                                   ELSE AG_x[v]]
           /\ AG_y' = [v \in 1..G_n |-> IF InCC(v) THEN m_y[m_mapNode[v]] - minY
                                                   ELSE AG_y[v]]
           /\ boundingBox' = [boundingBox EXCEPT ![i] = << b[2] - minX, b[4] - minY >>]
    /\ i' = i + 1
    /\ pc' = IF i' <= m_numCC THEN "initCC" ELSE "pack"
    /\ UNCHANGED << graphVars, cfgVars, intVars, qVars, loadVars, heapVars, ompVars, bendsCleared, ccVars, viewVars, nullVars,
                    loopVars, offset, h >>

(***************************************************************************)
(* call(): the packer, and the shift of every component by its offset.     *)
(***************************************************************************)
Pack ==
    /\ pc = "pack"
    /\ \E rows \in SUBSET (2..m_numCC) :
          offset' = PackRows(boundingBox, rows, m_numCC)[1]
    /\ AG_x' = [v \in 1..G_n |->
                  LET c == CHOOSE c \in 1..m_numCC :
                             \E j \in 1..Len(m_nodesInCC[c]) : m_nodesInCC[c][j] = v
                  IN  AG_x[v] + offset'[c][1]]
    /\ AG_y' = [v \in 1..G_n |->
                  LET c == CHOOSE c \in 1..m_numCC :
                             \E j \in 1..Len(m_nodesInCC[c]) : m_nodesInCC[c][j] = v
                  IN  AG_y[v] + offset'[c][2]]
    /\ h' = [h EXCEPT !.packerCalls = @ + 1]
    /\ pc' = "done"
    /\ UNCHANGED << graphVars, cfgVars, intVars, qVars, loadVars, ompVars, bendsCleared, ccVars, viewVars, nullVars,
                    loopVars, i, boundingBox >>
    /\ heap' = DestroyArrayGraph(heap)

(***************************************************************************)
(* The specification of call().                                            *)
(***************************************************************************)
Next ==
    \/ Call
    \/ InitCC
    \/ Initialize
    \/ MainStepEnter
    \/ MainStepIter
    \/ MainStepExit
    \/ Sse3Enter
    \/ Sse3Iter
    \/ Sse3Exit
    \/ WriteBack
    \/ Pack

Spec == Init /\ [][Next]_vars

(***************************************************************************)
(* The specification of the engine on a Flat Graph View: initialize and    *)
(* one of the main-step loops run on an ArrayGraph holding one component   *)
(* of n >= 2 nodes, with any subset of the edges between neighbours.       *)
(***************************************************************************)
\* the ArrayGraph after initCC, and the configuration but for the ideal edge
\* length; L is the solver state left by the components processed before
ViewAfter(L) ==
    /\ G_n \in 2..MaxNodes
    /\ G_edges \in Graphs(G_n)
    /\ \E pos \in [1..G_n -> Points] :
          /\ AG_x = [v \in 1..G_n |-> pos[v][1]]
          /\ AG_y = [v \in 1..G_n |-> pos[v][2]]
    /\ bendsCleared = TRUE
    /\ NoLoads /\ heap = AllocView(EmptyHeap) /\ NoRequest /\ NoPartitioning
    /\ m_numCC = 1
    /\ m_nodesInCC = << [v \in 1..G_n |-> v] >>
    /\ m_mapNode = [v \in 1..G_n |-> v]
    /\ m_numNodes = G_n
    /\ m_numEdges = Len(G_edges)
    /\ m_orig = [v \in 1..G_n |-> v]
    /\ m_src = [e \in 1..Len(G_edges) |-> G_edges[e][1]]
    /\ m_tgt = [e \in 1..Len(G_edges) |-> G_edges[e][2]]
    /\ m_x = AG_x
    /\ m_y = AG_y
    /\ m_nodeWeight = [v \in 1..G_n |-> 1]
    /\ m_txNull = L.txNull /\ m_tyNull = L.tyNull
    /\ tx = L.tx /\ ty = L.ty /\ cF = L.cF
    /\ converged = L.converged /\ itCount = L.itCount
    /\ pc = "initialize" /\ i = 1 /\ boundingBox = << <<0, 0>> >> /\ offset = << >>
    /\ h = [History(AG_x, AG_y) EXCEPT !.initX = m_x, !.initY = m_y,
                                       !.prevX = m_x, !.prevY = m_y,
                                       !.stale = L]

\* the view of a component and the configuration of the call
InitViewAfter(L) == Config /\ ViewAfter(L)

\* the view of the first component processed
InitView == InitViewAfter(NoLeftover)

InitEngine == InitView /\ m_idealEdgeLength = IdealEdgeLength /\ NoTeam

NextEngine ==
    \/ Initialize
    \/ MainStepEnter
    \/ MainStepIter
    \/ MainStepExit
    \/ Sse3Enter
    \/ Sse3Iter
    \/ Sse3Exit

SpecEngine == InitEngine /\ [][NextEngine]_vars

(***************************************************************************)
(* The engine on the scalar path with the convergence test, Factor cooling *)
(* with cool factors below 1 and a budget that is never exhausted.  The    *)
(* call runs on: while a step is possible, one is eventually taken.        *)
(***************************************************************************)
\* an iteration budget above the number of iterations the temperatures need
\* to fall below the threshold
ManyIter == 48

\* cool factors below 1, in percent
FactorsBelowOneX == { 0, CoolFactorX, 99 }
FactorsBelowOneY == { 50, CoolFactorY }

InitConverge ==
    /\ m_iterations = ManyIter
    /\ m_checkConvergence = TRUE
    /\ m_coolingFunction = "Factor"
    /\ haveSSE3 = FALSE
    /\ m_coolFactor_x \in FactorsBelowOneX
    /\ m_coolFactor_y \in FactorsBelowOneY
    /\ ViewAfter(NoLeftover)
    /\ m_idealEdgeLength = IdealEdgeLength
    /\ NoTeam

NextConverge ==
    \/ Initialize
    \/ MainStepEnter
    \/ MainStepIter
    \/ MainStepExit

\* what a step of the call does to its position: pc and itCount.  A step is
\* possible exactly when Advance is, and every step advances the position.
Advance ==
    \/ /\ pc = "initialize"
       /\ pc' = (IF haveSSE3 THEN "mainStep_sse3" ELSE "mainStep")
       /\ itCount' = itCount
    \/ pc = "mainStep" /\ pc' = "mainStep_loop" /\ itCount' = 1
    \/ pc = "mainStep_loop" /\ ~converged /\ pc' = pc /\ itCount' = itCount + 1
    \/ pc = "mainStep_loop" /\ converged /\ pc' = "writeback" /\ itCount' = itCount

SpecConverge ==
    InitConverge /\ [][NextConverge]_vars /\ WF_<<pc, itCount>>(Advance)

(***************************************************************************)
(* The specification of the engine on a later component: initialize and    *)
(* the main step on a Flat Graph View, entered with the solver state that  *)
(* the components processed before have left (m_txNull, m_tyNull of the    *)
(* last initialize; the temperatures, the counter, the flag and the        *)
(* iteration count the last main step ended with).                         *)
(***************************************************************************)
\* what an earlier component has left: after two iterations in Factor mode,
\* and after three in Logarithmic mode
Leftovers ==
    { [txNull |-> 37, tyNull |-> 12, tx |-> 29, ty |-> 9, cF |-> 1,
       converged |-> TRUE, itCount |-> 3],
      [txNull |-> 12, tyNull |-> 37, tx |-> 7, ty |-> 23, cF |-> 4,
       converged |-> TRUE, itCount |-> 4] }

InitLater ==
    /\ \E L \in Leftovers : InitViewAfter(L)
    /\ m_idealEdgeLength = IdealEdgeLength
    /\ NoTeam

SpecLater == InitLater /\ [][NextEngine]_vars

(***************************************************************************)
(* The specification of the engine under any ideal edge length: initialize *)
(* and the main step on a Flat Graph View as above, with m_idealEdgeLength *)
(* any of the non-negative values Lengths.  A division whose divisor is    *)
(* zero leaves the grid (the code goes on with infinities and NaNs): the   *)
(* model stops at pc = "divisionByZero".                                   *)
(***************************************************************************)
Lengths == { 0, IdealEdgeLength }

InitLength == InitView /\ m_idealEdgeLength \in Lengths /\ NoTeam

\* initialize(component): ratio = h / w, n / ratio, fx = W / w, fy = H / h
InitializeLength ==
    /\ pc = "initialize"
    /\ LET w == InitExtent(m_x, m_idealEdgeLength)
           hh == InitExtent(m_y, m_idealEdgeLength)
           r == InitializeBodyK(m_x, m_y, m_idealEdgeLength)
       IN  IF w = 0 \/ hh = 0
           THEN /\ pc' = "divisionByZero"
                /\ UNCHANGED << m_x, m_y, nullVars, h >>
           ELSE /\ m_x' = r.x
                /\ m_y' = r.y
                /\ m_txNull' = r.txNull
                /\ m_tyNull' = r.tyNull
                /\ pc' = IF m_idealEdgeLength = 0 THEN "mainStep_k0"
                         ELSE IF haveSSE3 THEN "mainStep_sse3" ELSE "mainStep"
                /\ h' = [h EXCEPT !.initX = m_x', !.initY = m_y',
                                  !.prevX = m_x', !.prevY = m_y',
                                  !.initCalls = @ + 1]
    /\ UNCHANGED << graphVars, cfgVars, intVars, qVars, loadVars, heapVars, ompVars, agVars, ccVars, m_mapNode, m_numNodes,
                    m_numEdges, m_orig, m_src, m_tgt, m_nodeWeight, loopVars,
                    callVars >>

\* the main step with k = 0 (after initialize all positions are 0 and
\* c_rep = 0): the first attractive pass divides delta * dist by k; without
\* an edge or an iteration every displacement is 0 and the positions stay
MainStepLength ==
    /\ pc = "mainStep_k0"
    /\ pc' = IF m_iterations >= 1 /\ m_numEdges >= 1 THEN "divisionByZero"
                                                     ELSE "writeback"
    /\ UNCHANGED << graphVars, cfgVars, intVars, qVars, loadVars, ompVars, agVars, ccVars, viewVars, nullVars,
                    loopVars, callVars, h >>
    /\ heap' = (IF pc' = "divisionByZero" THEN AllocDisp(heap)
                                             ELSE FreeDisp(AllocDisp(heap)))

NextLength ==
    \/ InitializeLength
    \/ MainStepLength
    \/ MainStepEnter
    \/ MainStepIter
    \/ MainStepExit
    \/ Sse3Enter
    \/ Sse3Iter
    \/ Sse3Exit

SpecLength == InitLength /\ [][NextLength]_vars

(***************************************************************************)
(* The main step followed worker by worker.  mainStep runs its repulsive   *)
(* and its capping loop as "omp parallel for" (a team is forked for the    *)
(* loop and joined at its end) and everything else on the calling thread;  *)
(* mainStep_sse3 runs its whole iteration loop inside one "omp parallel"   *)
(* region: "omp for" (repulsive), "omp single" (attractive), "omp for      *)
(* nowait" and "omp single nowait" (capping), cool on private variables,   *)
(* "omp barrier".  A worker's place wpc[w] is one of                       *)
(*   "rep"     in the repulsive loop, with indices left to execute         *)
(*   "repB"    at the barrier that ends the repulsive loop                 *)
(*   "attRun"  executing the attractive pass                               *)
(*   "attB"    at the barrier that ends "omp single" (mainStep: the        *)
(*             calling thread before it forks the capping loop)            *)
(*   "cap"     in the capping loop, with indices left to execute           *)
(*   "odd"     at "omp single nowait"                                      *)
(*   "endB"    at "omp barrier" (mainStep: the barrier that ends the       *)
(*             capping loop)                                               *)
(*   "idle"    mainStep: a worker other than the calling thread, between   *)
(*             two parallel loops                                          *)
(*   "exit"    past the iteration loop                                     *)
(***************************************************************************)
\* largest value of omp_get_max_threads()
MaxThreads == 2

\* mainStep_sse3: const int work (256 in the code; brought to the node counts
\* of the model, so that the team has more than one worker)
work == 4

\* mainStep_sse3: nThreadsRep
nThreadsRep(n) == Min(maxThreads, 1 + (n * n) \div work)

Team == 1..Len(wpc)
OnSse3 == pc = "sse3_loop"

\* the iteration worker w is in: mainStep_sse3's private i, mainStep's itCount
It(w) == IF OnSse3 THEN priv[w].i ELSE itCount

\* the indices of the running loop that worker w has still to execute
Own(w) == { u \in DOMAIN ws.split : ws.split[u] = w /\ u \notin ws.done }

\* the indices of the capping loop (mainStep: the nodes; mainStep_sse3: the
\* pairs v, v + 1 for v = 0, 2, .. < n - 1) and the nodes of one index
CapUnits(sse3, n) == IF sse3 THEN 1..(n \div 2) ELSE 1..n
UnitNodes(p) == IF OnSse3 THEN { 2 * p - 1, 2 * p } ELSE { p }

\* faulty variant of BarrierOpen: a worker leaves the barrier without waiting
BarrierOpen_NoWait(b) == \E w \in Team : wpc[w] = b

\* faulty variant of BarrierOpen: "omp barrier" at the end of the iteration
\* is missing (mainStep: the capping loop is not joined)
BarrierOpen_NoEndBarrier(b) ==
    IF b = "endB"
    THEN \E w \in Team : wpc[w] = b
    ELSE /\ \A w \in Team : wpc[w] \in {b, "idle"}
         /\ \E w \in Team : wpc[w] = b

\* the barrier b lets the team pass: every worker has arrived (mainStep: the
\* workers between two parallel loops are waiting for the next fork)
BarrierOpen(b) ==
    /\ \A w \in Team : wpc[w] \in {b, "idle"}
    /\ \E w \in Team : wpc[w] = b

\* the workers a release of barrier b lets go
Released(b) == { w \in Team : wpc[w] \in {b, "idle"} }

\* a new iteration starts for the workers R of the team 1..T, with the
\* repulsive loop split sp
StartIteration(T, R, sp) ==
    /\ ws' = [split |-> sp, done |-> {}, attBy |-> 0, attE |-> 0, oddBy |-> 0]
    /\ wpc' = [w \in 1..T |->
                 IF w \in R THEN (IF \E v \in DOMAIN sp : sp[v] = w THEN "rep" ELSE "repB")
                            ELSE wpc[w]]
    /\ g' = [g EXCEPT !.startX = m_x, !.startY = m_y, !.attLog = << >>]
    /\ acc' = {}

\* the iteration loop is over for the workers R of the team 1..T
LeaveLoop(T, R) ==
    /\ wpc' = [w \in 1..T |-> IF w \in R THEN "exit" ELSE wpc[w]]
    /\ UNCHANGED << ws, g >>
    /\ acc' = {}

(***************************************************************************)
(* mainStep, entry: the locals, the loop test, "if (m_checkConvergence)    *)
(* converged = true" and the fork of the repulsive loop.                   *)
(***************************************************************************)
OmpMainStepEnter ==
    /\ pc = "mainStep"
    /\ pc' = "mainStep_loop"
    /\ tx' = m_txNull /\ ty' = m_tyNull /\ cF' = 1 /\ itCount' = 1
    /\ priv' = << >>
    /\ disp_x' = [v \in 1..m_numNodes |-> 0]
    /\ disp_y' = [v \in 1..m_numNodes |-> 0]
    /\ IF ConvergedAtEntry
       THEN /\ converged' = TRUE
            /\ LeaveLoop(maxThreads, 1..maxThreads)
       ELSE /\ converged' = m_checkConvergence
            /\ \E sp \in [1..m_numNodes -> 1..maxThreads] :
                  StartIteration(maxThreads, 1..maxThreads, sp)
    /\ UNCHANGED << graphVars, cfgVars, intVars, qVars, loadVars, agVars, ccVars, viewVars, nullVars,
                    callVars, maxThreads, h >>
    /\ heap' = AllocDisp(heap)

(***************************************************************************)
(* mainStep_sse3, entry: the team of nThreadsRep workers, their private    *)
(* tx, ty, cF, i and the first loop test.                                  *)
(***************************************************************************)
OmpSse3Enter ==
    /\ pc = "mainStep_sse3"
    /\ pc' = "sse3_loop"
    /\ LET T == nThreadsRep(m_numNodes)
       IN  /\ priv' = [w \in 1..T |->
                         [i |-> 1, tx |-> m_txNull, ty |-> m_tyNull, cF |-> 1]]
           /\ IF 1 <= m_iterations
              THEN \E sp \in [1..m_numNodes -> 1..T] : StartIteration(T, 1..T, sp)
              ELSE LeaveLoop(T, 1..T)
    /\ disp_x' = [v \in 1..m_numNodes |-> 0]
    /\ disp_y' = [v \in 1..m_numNodes |-> 0]
    /\ UNCHANGED << graphVars, cfgVars, intVars, qVars, loadVars, agVars, ccVars, viewVars, nullVars,
                    loopVars, callVars, maxThreads, h >>
    /\ heap' = AllocDisp(heap)

(***************************************************************************)
(* The repulsive loop: worker w executes the body for its next node v,     *)
(* storing disp_x[v], disp_y[v]; after its last node it is at the barrier  *)
(* that ends the loop.                                                     *)
(***************************************************************************)
RepNode(w) ==
    /\ pc \in {"mainStep_loop", "sse3_loop"}
    /\ wpc[w] = "rep"
    /\ Own(w) # {}
    /\ LET v == SetMin(Own(w))
           n == m_numNodes
           loads == SseLoads(v - 1, n)
           partners == IF OnSse3 THEN SseLanes(v, n) ELSE (1..n) \ {v}
           d == [c \in 1..2 |->
                   IF OnSse3 THEN SseSum(m_x, m_y, m_nodeWeight, v, loads, Len(loads), c)
                             ELSE RepSum(m_x, m_y, m_nodeWeight, v, n, c)]
       IN  /\ disp_x' = [disp_x EXCEPT ![v] = d[1]]
           /\ disp_y' = [disp_y EXCEPT ![v] = d[2]]
           /\ ws' = [ws EXCEPT !.done = @ \cup {v}]
           /\ wpc' = [wpc EXCEPT ![w] = IF Own(w) = {v} THEN "repB" ELSE "rep"]
           /\ acc' = acc \cup { <<w, "r", <<"x", u>>>> : u \in partners \cup {v} }
                         \cup { <<w, "w", <<"disp", v>>>> }
           /\ g' = [g EXCEPT !.rep = @ \cup { <<It(w), v>> }]
    /\ UNCHANGED << graphVars, cfgVars, intVars, qVars, loadVars, heapVars, agVars, ccVars, viewVars, nullVars,
                    loopVars, callVars, maxThreads, priv, pc, h >>

(***************************************************************************)
(* The barrier that ends the repulsive loop.  mainStep: the team is        *)
(* joined, the calling thread goes on with the attractive pass.            *)
(* mainStep_sse3: the workers reach "omp single", one of them executes the *)
(* attractive pass, the others wait at the barrier that ends the construct.*)
(***************************************************************************)
RepBarrier ==
    /\ pc \in {"mainStep_loop", "sse3_loop"}
    /\ BarrierOpen("repB")
    /\ \E ex \in (IF OnSse3 THEN Released("repB") ELSE {1}) :
          /\ ws' = [ws EXCEPT !.attBy = IF m_numEdges > 0 THEN ex ELSE 0]
          /\ wpc' = [w \in Team |->
                       IF w \notin Released("repB") THEN wpc[w]
                       ELSE IF w = ex /\ m_numEdges > 0 THEN "attRun"
                       ELSE IF OnSse3 \/ w = 1 THEN "attB"
                       ELSE "idle"]
    /\ acc' = {}
    /\ UNCHANGED << graphVars, cfgVars, intVars, qVars, loadVars, heapVars, agVars, ccVars, viewVars, nullVars,
                    loopVars, callVars, maxThreads, priv, disp_x, disp_y, g, pc, h >>

(***************************************************************************)
(* The attractive pass: the executing worker applies its next edge.        *)
(***************************************************************************)
AttEdge(w) ==
    /\ pc \in {"mainStep_loop", "sse3_loop"}
    /\ wpc[w] = "attRun"
    /\ ws.attE < m_numEdges
    /\ LET e == ws.attE + 1
           d == Attractive(m_x, m_y, << m_src[e] >>, << m_tgt[e] >>,
                           << disp_x, disp_y >>, 1)
       IN  /\ disp_x' = d[1]
           /\ disp_y' = d[2]
           /\ ws' = [ws EXCEPT !.attE = e]
           /\ wpc' = [wpc EXCEPT ![w] = IF e = m_numEdges THEN "attB" ELSE "attRun"]
           /\ g' = [g EXCEPT !.attLog = Append(@, <<It(w), e, w>>)]
    /\ UNCHANGED << graphVars, cfgVars, intVars, qVars, loadVars, heapVars, agVars, ccVars, viewVars, nullVars,
                    loopVars, callVars, maxThreads, priv, acc, pc, h >>

(***************************************************************************)
(* The barrier that ends "omp single" (mainStep: the fork of the capping   *)
(* loop by the calling thread): the capping loop starts.                   *)
(***************************************************************************)
AttBarrier ==
    /\ pc \in {"mainStep_loop", "sse3_loop"}
    /\ BarrierOpen("attB")
    /\ \E sp \in [CapUnits(OnSse3, m_numNodes) -> Team] :
          /\ ws' = [ws EXCEPT !.split = sp, !.done = {}]
          /\ wpc' = [w \in Team |->
                       IF w \notin Released("attB") THEN wpc[w]
                       ELSE IF \E u \in DOMAIN sp : sp[u] = w THEN "cap"
                       ELSE IF OnSse3 THEN "odd"
                       ELSE "endB"]
    /\ acc' = {}
    /\ UNCHANGED << graphVars, cfgVars, intVars, qVars, loadVars, heapVars, agVars, ccVars, viewVars, nullVars,
                    loopVars, callVars, maxThreads, priv, disp_x, disp_y, g, pc, h >>

(***************************************************************************)
(* The capping loop: worker w caps and applies the displacement of the     *)
(* nodes of its next index (mainStep: one node, and "converged = false"    *)
(* when the node is above the threshold; mainStep_sse3: the pair v, v + 1),*)
(* with the temperatures it sees: mainStep's tx, ty or its private ones.   *)
(***************************************************************************)
\* the temperatures worker w caps with
Temp(w) == IF OnSse3 THEN << priv[w].tx, priv[w].ty >> ELSE << tx, ty >>

\* xdisplace, ydisplace of the nodes S as worker w computes them
Displaced(S, w) ==
    [v \in S |-> Displace(<< disp_x, disp_y >>, v, Temp(w)[1], Temp(w)[2])]

\* the accesses of worker w capping the nodes S
CapAccesses(S, w) ==
    UNION { { <<w, "r", <<"disp", v>>>>, <<w, "r", <<"x", v>>>>, <<w, "w", <<"x", v>>>> }
            : v \in S }

CapUnit(w) ==
    /\ pc \in {"mainStep_loop", "sse3_loop"}
    /\ wpc[w] = "cap"
    /\ Own(w) # {}
    /\ LET p == SetMin(Own(w))
           S == UnitNodes(p)
           d == Displaced(S, w)
           above == ~OnSse3 /\ \E v \in S : Exceeds(d[v])
       IN  /\ m_x' = [v \in 1..m_numNodes |-> IF v \in S THEN m_x[v] + d[v][1] ELSE m_x[v]]
           /\ m_y' = [v \in 1..m_numNodes |-> IF v \in S THEN m_y[v] + d[v][2] ELSE m_y[v]]
           \* every store to converged in the loop stores false
           /\ converged' = IF above THEN FALSE ELSE converged
           /\ ws' = [ws EXCEPT !.done = @ \cup {p}]
           /\ wpc' = [wpc EXCEPT ![w] = IF Own(w) # {p} THEN "cap"
                                       ELSE IF OnSse3 THEN "odd" ELSE "endB"]
           /\ acc' = acc \cup CapAccesses(S, w)
                         \cup (IF above THEN { <<w, "w", <<"converged", 0>>>> } ELSE {})
           /\ g' = [g EXCEPT !.cap = @ \cup { <<It(w), v>> : v \in S }]
    /\ UNCHANGED << graphVars, cfgVars, intVars, qVars, loadVars, heapVars, agVars, ccVars, m_mapNode, m_numNodes,
                    m_numEdges, m_orig, m_src, m_tgt, m_nodeWeight, nullVars,
                    tx, ty, cF, itCount, callVars, maxThreads, priv, disp_x,
                    disp_y, pc, h >>

(***************************************************************************)
(* mainStep_sse3: "omp single nowait" (the first worker to arrive caps the *)
(* odd last node, the others pass) and cool on the worker's private tx,    *)
(* ty, cF; the worker is then at "omp barrier".                            *)
(***************************************************************************)
OddSingle(w) ==
    /\ pc = "sse3_loop"
    /\ wpc[w] = "odd"
    /\ LET n == m_numNodes
           S == IF ws.oddBy = 0 /\ n % 2 = 1 THEN {n} ELSE {}
           d == Displaced(S, w)
           t == cool(m_coolingFunction, m_txNull, m_tyNull,
                     priv[w].tx, priv[w].ty, priv[w].cF)
       IN  /\ m_x' = [v \in 1..n |-> IF v \in S THEN m_x[v] + d[v][1] ELSE m_x[v]]
           /\ m_y' = [v \in 1..n |-> IF v \in S THEN m_y[v] + d[v][2] ELSE m_y[v]]
           /\ ws' = [ws EXCEPT !.oddBy = IF @ = 0 THEN w ELSE @]
           /\ priv' = [priv EXCEPT ![w] = [i |-> @.i, tx |-> t[1], ty |-> t[2],
                                           cF |-> t[3]]]
           /\ wpc' = [wpc EXCEPT ![w] = "endB"]
           /\ acc' = acc \cup CapAccesses(S, w)
           /\ g' = [g EXCEPT !.cap = @ \cup { <<It(w), v>> : v \in S }]
    /\ UNCHANGED << graphVars, cfgVars, intVars, qVars, loadVars, heapVars, agVars, ccVars, m_mapNode, m_numNodes,
                    m_numEdges, m_orig, m_src, m_tgt, m_nodeWeight, nullVars,
                    loopVars, callVars, maxThreads, disp_x, disp_y, pc, h >>

(***************************************************************************)
(* The end of an iteration.  mainStep: the capping loop's team is joined,  *)
(* the calling thread runs cool, itCount++, the update of converged and    *)
(* the loop test.  mainStep_sse3: "omp barrier", then every worker runs    *)
(* i++ and the loop test.                                                  *)
(***************************************************************************)
EndBarrier ==
    /\ pc \in {"mainStep_loop", "sse3_loop"}
    /\ BarrierOpen("endB")
    /\ LET R == Released("endB")
           T == Len(wpc)
       IN  IF OnSse3
           THEN /\ priv' = [w \in Team |->
                              IF w \in R THEN [priv[w] EXCEPT !.i = @ + 1] ELSE priv[w]]
                /\ IF \E w \in R : priv[w].i + 1 <= m_iterations
                   THEN \E sp \in [1..m_numNodes -> Team] : StartIteration(T, R, sp)
                   ELSE LeaveLoop(T, R)
                /\ UNCHANGED loopVars
           ELSE LET t == cool(m_coolingFunction, m_txNull, m_tyNull, tx, ty, cF)
                    conv == BudgetExhausted(itCount + 1) \/ converged
                IN  /\ tx' = t[1] /\ ty' = t[2] /\ cF' = t[3]
                    /\ itCount' = itCount + 1
                    /\ converged' = IF conv THEN TRUE ELSE m_checkConvergence
                    /\ IF conv
                       THEN LeaveLoop(T, R)
                       ELSE \E sp \in [1..m_numNodes -> Team] : StartIteration(T, R, sp)
                    /\ UNCHANGED priv
    /\ UNCHANGED << graphVars, cfgVars, intVars, qVars, loadVars, heapVars, agVars, ccVars, viewVars, nullVars,
                    callVars, maxThreads, disp_x, disp_y, pc, h >>

(***************************************************************************)
(* The loop is over for every worker: the buffers are freed, the engine    *)
(* returns.                                                                *)
(***************************************************************************)
OmpReturn ==
    /\ pc \in {"mainStep_loop", "sse3_loop"}
    /\ \A w \in Team : wpc[w] = "exit"
    /\ pc' = "writeback"
    /\ UNCHANGED << graphVars, cfgVars, intVars, qVars, loadVars, agVars, ccVars, viewVars, nullVars,
                    loopVars, callVars, ompVars, h >>
    /\ heap' = FreeDisp(heap)

(***************************************************************************)
(* The specification of the engine followed worker by worker: initialize   *)
(* and the main step on a Flat Graph View whose nodes are all apart or all *)
(* at one point, without edges or with the edges between neighbours.       *)
(***************************************************************************)
\* the coordinate of node v when the nodes are apart
Placed(v) == << <<0, 0>>, <<30, 0>>, <<150, 50>> >>[((v - 1) % 3) + 1]

InitOmp ==
    /\ InitView
    /\ m_idealEdgeLength = IdealEdgeLength
    /\ G_edges \in { << >>, LinkEdges(1..(G_n - 1), G_n - 1) }
    /\ \/ \A v \in 1..G_n : << AG_x[v], AG_y[v] >> = Placed(v)
       \/ \A v \in 1..G_n : << AG_x[v], AG_y[v] >> = << 0, 0 >>
    /\ maxThreads \in 1..MaxThreads
    /\ wpc = << >> /\ priv = << >>
    /\ ws = [split |-> << >>, done |-> {}, attBy |-> 0, attE |-> 0, oddBy |-> 0]
    /\ disp_x = << >> /\ disp_y = << >>
    /\ acc = {}
    /\ g = [startX |-> << >>, startY |-> << >>, rep |-> {}, cap |-> {},
            attLog |-> << >>]

NextOmp ==
    \/ Initialize
    \/ OmpMainStepEnter
    \/ OmpSse3Enter
    \/ \E w \in Team : RepNode(w)
    \/ RepBarrier
    \/ \E w \in Team : AttEdge(w)
    \/ AttBarrier
    \/ \E w \in Team : CapUnit(w)
    \/ \E w \in Team : OddSingle(w)
    \/ EndBarrier
    \/ OmpReturn

SpecOmp == InitOmp /\ [][NextOmp]_vars

(***************************************************************************)
(* The specification of cooling: cool called again and again on the        *)
(* locals of a main-step loop that has just been entered (tx = m_txNull,   *)
(* ty = m_tyNull, cF = 1), in either mode and with cool factors in (0, 1]. *)
(***************************************************************************)
\* the calls of cool followed
MaxCool == 8

\* the values of m_coolFactor_x, m_coolFactor_y, in percent
CoolFactors == { 1, 50, CoolFactorX, 100 }

\* the values of m_txNull = W / 8 and m_tyNull = H / 8
NullTemps == { 0, 12, 37 }

InitCool ==
    /\ G_n = 0 /\ G_edges = << >>
    /\ AG_x = << >> /\ AG_y = << >> /\ bendsCleared = TRUE
    /\ m_iterations = MaxCool
    /\ m_checkConvergence = FALSE
    /\ m_coolingFunction \in {"Factor", "Logarithmic"}
    /\ haveSSE3 = FALSE
    /\ m_idealEdgeLength = IdealEdgeLength
    /\ m_coolFactor_x \in CoolFactors
    /\ m_coolFactor_y \in CoolFactors
    /\ NoTeam /\ NoLoads /\ heap = EmptyHeap /\ NoRequest /\ NoPartitioning
    /\ m_numCC = 0 /\ m_nodesInCC = << >> /\ m_mapNode = << >>
    /\ m_numNodes = 0 /\ m_numEdges = 0
    /\ m_orig = << >> /\ m_src = << >> /\ m_tgt = << >>
    /\ m_x = << >> /\ m_y = << >> /\ m_nodeWeight = << >>
    /\ m_txNull \in NullTemps /\ m_tyNull \in NullTemps
    /\ tx = m_txNull /\ ty = m_tyNull /\ cF = 1
    /\ converged = FALSE /\ itCount = 1
    /\ pc = "cool" /\ i = 0 /\ boundingBox = << >> /\ offset = << >>
    /\ h = [History(AG_x, AG_y) EXCEPT !.prevTx = tx, !.prevTy = ty]

\* one call cool(tx, ty, cF)
Cool ==
    /\ pc = "cool"
    /\ h.cools < MaxCool
    /\ LET t == coolWith(m_coolFactor_x, m_coolFactor_y, m_coolingFunction,
                         m_txNull, m_tyNull, tx, ty, cF)
       IN  /\ tx' = t[1]
           /\ ty' = t[2]
           /\ cF' = t[3]
    /\ h' = [h EXCEPT !.prevTx = tx, !.prevTy = ty, !.cools = @ + 1]
    /\ UNCHANGED << graphVars, cfgVars, intVars, qVars, loadVars, heapVars, ompVars, agVars, ccVars, viewVars, nullVars,
                    converged, itCount, callVars, pc >>

NextCool == Cool

SpecCool == InitCool /\ [][NextCool]_vars

(***************************************************************************)
(* The specification of the ArrayGraph alone: constructed on a graph that  *)
(* may have self-loops and parallel edges, then initCC(c) called for       *)
(* components c in any order.                                              *)
(***************************************************************************)
RECURSIVE EdgeCatalogue(_, _)
\* the edges a graph on the nodes 1..n may have, listed for the nodes up to
\* m: a self-loop at each node, and two parallel edges of opposite direction
\* between neighbours
EdgeCatalogue(m, n) ==
    IF m = 0 THEN << >>
    ELSE EdgeCatalogue(m - 1, n) \o << << m, m >> >>
         \o (IF m < n THEN << << m, m + 1 >>, << m + 1, m >> >> ELSE << >>)

RECURSIVE PickEdges(_, _, _)
\* the edges of cat with an index in S, up to index j, in the order of cat
PickEdges(cat, S, j) ==
    IF j = 0 THEN << >>
    ELSE PickEdges(cat, S, j - 1) \o (IF j \in S THEN << cat[j] >> ELSE << >>)

\* the input graphs with self-loops and parallel edges on the nodes 1..n
MultiGraphs(n) ==
    LET cat == EdgeCatalogue(n, n)
    IN  { PickEdges(cat, S, Len(cat)) : S \in SUBSET (1..Len(cat)) }

\* the state after ArrayGraph(ga)
InitArrayGraph ==
    /\ G_n \in 1..MaxNodes
    /\ G_edges \in MultiGraphs(G_n)
    /\ AG_x = [v \in 1..G_n |-> Placed(v)[1]]
    /\ AG_y = [v \in 1..G_n |-> Placed(v)[2]]
    /\ bendsCleared = TRUE
    /\ m_iterations = 0 /\ m_checkConvergence = FALSE
    /\ m_coolingFunction = "Factor" /\ haveSSE3 = FALSE
    /\ m_idealEdgeLength = IdealEdgeLength
    /\ m_coolFactor_x = CoolFactorX /\ m_coolFactor_y = CoolFactorY
    /\ NoTeam /\ NoLoads /\ heap = EmptyHeap /\ NoRequest /\ NoPartitioning
    /\ LET component == connectedComponents(G_n, G_edges)
           numCC == Cardinality({ component[v] : v \in 1..G_n })
       IN  /\ m_numCC = numCC
           /\ m_nodesInCC = [c \in 1..numCC |-> NodesInCC(component, c, G_n)]
    /\ m_mapNode = [v \in 1..G_n |-> 0]
    /\ m_numNodes = 0 /\ m_numEdges = 0
    /\ m_orig = << >> /\ m_src = << >> /\ m_tgt = << >>
    /\ m_x = << >> /\ m_y = << >> /\ m_nodeWeight = << >>
    /\ m_txNull = 0 /\ m_tyNull = 0
    /\ tx = 0 /\ ty = 0 /\ cF = 0 /\ converged = FALSE /\ itCount = 0
    /\ pc = "arrayGraph" /\ i = 0
    /\ boundingBox = [c \in 1..m_numCC |-> <<0, 0>>] /\ offset = << >>
    /\ h = History(AG_x, AG_y)

\* the calls of initCC followed
MaxInitCC == 3

\* initCC(c) for any component c; i records the argument
InitCCCall ==
    /\ pc = "arrayGraph"
    /\ Len(heap.owner) < MaxInitCC * Len(ViewBuffers)
    /\ \E c \in 1..m_numCC :
          /\ InitCCView(c)
          /\ i' = c
    /\ h' = Viewed
    /\ UNCHANGED << graphVars, cfgVars, intVars, qVars, loadVars, ompVars, agVars, ccVars, nullVars, loopVars,
                    boundingBox, offset, pc >>
    /\ heap' = AllocView(ReleaseView(heap))

NextArrayGraph == InitCCCall

SpecArrayGraph == InitArrayGraph /\ [][NextArrayGraph]_vars

(***************************************************************************)
(* The specification of the inner loops of the vectorized repulsive pass:  *)
(* for a node count n and a node v, the paired and single loads are        *)
(* executed one by one.                                                    *)
(***************************************************************************)
\* the largest node count followed
MaxLanes == 9

\* the solver at rest on an empty view
InitLoads ==
    /\ G_n = 0 /\ G_edges = << >>
    /\ AG_x = << >> /\ AG_y = << >> /\ bendsCleared = TRUE
    /\ m_iterations = 1 /\ m_checkConvergence = FALSE
    /\ m_coolingFunction = "Factor" /\ haveSSE3 = TRUE
    /\ m_idealEdgeLength = IdealEdgeLength
    /\ m_coolFactor_x = CoolFactorX /\ m_coolFactor_y = CoolFactorY
    /\ NoTeam /\ heap = EmptyHeap /\ NoRequest /\ NoPartitioning
    /\ m_numCC = 0 /\ m_nodesInCC = << >> /\ m_mapNode = << >>
    /\ m_numNodes = 0 /\ m_numEdges = 0
    /\ m_orig = << >> /\ m_src = << >> /\ m_tgt = << >>
    /\ m_x = << >> /\ m_y = << >> /\ m_nodeWeight = << >>
    /\ m_txNull = 0 /\ m_tyNull = 0
    /\ tx = 0 /\ ty = 0 /\ cF = 1 /\ converged = FALSE /\ itCount = 1
    /\ pc = "sse3_rep" /\ i = 0 /\ boundingBox = << >> /\ offset = << >>
    /\ h = History(AG_x, AG_y)
    /\ \E n \in 2..MaxLanes : \E v \in 0..(n - 1) :
          lanes = [n |-> n, v |-> v, k |-> 0, seen |-> [u \in 0..(n + 1) |-> 0]]

\* the next compute_pd(u) or compute_sd(u) of the body for v: the lanes of
\* u, u + 1 or the lane of u are loaded
Load ==
    /\ pc = "sse3_rep"
    /\ LET loads == SseLoads(lanes.v, lanes.n)
       IN  /\ lanes.k < Len(loads)
           /\ LET ld == loads[lanes.k + 1]
                  L == IF ld[1] = "pd" THEN { ld[2], ld[2] + 1 } ELSE { ld[2] }
              IN  lanes' = [lanes EXCEPT !.k = @ + 1,
                                         !.seen = [u \in DOMAIN @ |->
                                                     IF u \in L THEN @[u] + 1 ELSE @[u]]]
    /\ UNCHANGED << graphVars, cfgVars, intVars, qVars, heapVars, agVars, ccVars, viewVars, nullVars,
                    loopVars, callVars, ompVars, pc, h >>

NextLoads == Load

SpecLoads == InitLoads /\ [][NextLoads]_vars

(***************************************************************************)
(* The team size of mainStep_sse3 at the width of int.  The node count is  *)
(* any int from 2 on; n * n is an int product, whose overflow is undefined *)
(* behaviour: the build may leave any int.                                 *)
(***************************************************************************)
\* the width of int in bits (32 in the build; brought to the scale of the
\* model as work is)
IntBits == 8

IntMin == -(2 ^ (IntBits - 1))
IntMax == 2 ^ (IntBits - 1) - 1

\* the value two's complement arithmetic leaves for z
Wrapped(z) == ((z - IntMin) % (2 ^ IntBits)) + IntMin

\* the values the build can have for the int product a * b
IntMul(a, b) ==
    IF a * b \in IntMin..IntMax THEN { a * b } ELSE IntMin..IntMax

\* mainStep_sse3: nThreadsRep, from the value of n * n
nThreadsRepOf(sq) == Min(maxThreads, 1 + TDiv(sq, work))

InitThreads ==
    /\ G_n = 0 /\ G_edges = << >>
    /\ AG_x = << >> /\ AG_y = << >> /\ bendsCleared = TRUE
    /\ m_iterations = 1 /\ m_checkConvergence = FALSE
    /\ m_coolingFunction = "Factor" /\ haveSSE3 = TRUE
    /\ m_idealEdgeLength = IdealEdgeLength
    /\ m_coolFactor_x = CoolFactorX /\ m_coolFactor_y = CoolFactorY
    /\ NoLoads /\ heap = EmptyHeap /\ NoPartitioning
    /\ m_numCC = 0 /\ m_nodesInCC = << >> /\ m_mapNode = << >>
    /\ m_numNodes = 0 /\ m_numEdges = 0
    /\ m_orig = << >> /\ m_src = << >> /\ m_tgt = << >>
    /\ m_x = << >> /\ m_y = << >> /\ m_nodeWeight = << >>
    /\ m_txNull = 0 /\ m_tyNull = 0
    /\ tx = 0 /\ ty = 0 /\ cF = 1 /\ converged = FALSE /\ itCount = 1
    /\ pc = "mainStep_sse3" /\ i = 0 /\ boundingBox = << >> /\ offset = << >>
    /\ h = History(AG_x, AG_y)
    /\ maxThreads \in 1..MaxThreads
    /\ wpc = << >> /\ priv = << >>
    /\ ws = [split |-> << >>, done |-> {}, attBy |-> 0, attE |-> 0, oddBy |-> 0]
    /\ disp_x = << >> /\ disp_y = << >>
    /\ acc = {}
    /\ g = [startX |-> << >>, startY |-> << >>, rep |-> {}, cap |-> {},
            attLog |-> << >>]
    /\ \E n \in 2..IntMax :
          threads = [n |-> n, sq |-> 0, rep |-> 0, done |-> FALSE]

\* const int nThreadsRep = min(omp_get_max_threads(), 1 + n * n / work)
RequestThreads ==
    /\ pc = "mainStep_sse3" /\ ~threads.done
    /\ \E sq \in IntMul(threads.n, threads.n) :
          threads' = [threads EXCEPT !.sq = sq, !.rep = nThreadsRepOf(sq),
                                     !.done = TRUE]
    /\ UNCHANGED << graphVars, cfgVars, qVars, loadVars, heapVars, agVars, ccVars,
                    viewVars, nullVars, loopVars, callVars, ompVars, pc, h >>

NextThreads == RequestThreads

SpecThreads == InitThreads /\ [][NextThreads]_vars

(***************************************************************************)
(* QPartitioning: the calls makeQVertex, releaseQVertex and nodeDeleted on *)
(* a graph of MaxQNodes nodes, each call with its assertions as guards.    *)
(***************************************************************************)
MaxQNodes == 3
\* the partition ids handed out
MaxPartitions == 3

NO_PARTITION == -1
\* the least size of the partition table (brought to the scale of the model)
MIN_TABLE_SIZE == 2

RECURSIVE PowerFrom(_, _)
PowerFrom(q, x) == IF q >= x THEN q ELSE PowerFrom(2 * q, x)

\* Math::nextPower2(a, b): the least power of 2 that is >= a and >= b
nextPower2(a, b) == PowerFrom(1, Max(a, b))

isQVertex(n) == partitions[n] # NO_PARTITION

getPartitionOf(n) == partitions[n]

\* List::removeFirst(n): the list without the first occurrence of n
RECURSIVE removeFirst(_, _)
removeFirst(list, n) ==
    IF list = << >> THEN << >>
    ELSE IF Head(list) = n THEN Tail(list)
    ELSE << Head(list) >> \o removeFirst(Tail(list), n)

\* resizeArrays(): the table of lists with size entries
resizeArrays(table, size) ==
    [q \in 0..(size - 1) |-> IF q \in DOMAIN table THEN table[q] ELSE << >>]

InitQ ==
    /\ G_n = 0 /\ G_edges = << >>
    /\ AG_x = << >> /\ AG_y = << >> /\ bendsCleared = TRUE
    /\ m_iterations = 1 /\ m_checkConvergence = FALSE
    /\ m_coolingFunction = "Factor" /\ haveSSE3 = TRUE
    /\ m_idealEdgeLength = IdealEdgeLength
    /\ m_coolFactor_x = CoolFactorX /\ m_coolFactor_y = CoolFactorY
    /\ NoTeam /\ NoLoads /\ heap = EmptyHeap /\ NoRequest
    /\ m_numCC = 0 /\ m_nodesInCC = << >> /\ m_mapNode = << >>
    /\ m_numNodes = 0 /\ m_numEdges = 0
    /\ m_orig = << >> /\ m_src = << >> /\ m_tgt = << >>
    /\ m_x = << >> /\ m_y = << >> /\ m_nodeWeight = << >>
    /\ m_txNull = 0 /\ m_tyNull = 0
    /\ tx = 0 /\ ty = 0 /\ cF = 1 /\ converged = FALSE /\ itCount = 1
    /\ pc = "qPartitioning" /\ i = 0 /\ boundingBox = << >> /\ offset = << >>
    /\ h = History(AG_x, AG_y)
    /\ Q_nodes = 1..MaxQNodes
    /\ Q_degree \in [1..MaxQNodes -> 2..3]
    /\ partitions = [n \in 1..MaxQNodes |-> NO_PARTITION]
    /\ partition_next_id = 0
    /\ partition_table_size = MIN_TABLE_SIZE
    /\ partitioned_nodes = resizeArrays(<< >>, MIN_TABLE_SIZE)
    /\ q_vertex_count = 0

\* int makeQVertex(node n, int p)
makeQVertex(n, p) ==
    /\ pc = "qPartitioning"
    /\ n \in Q_nodes
    /\ ~isQVertex(n)
    /\ Q_degree[n] > 2
    /\ p = NO_PARTITION => partition_next_id < MaxPartitions
    /\ LET q == IF p = NO_PARTITION THEN partition_next_id ELSE p
           next_id == IF p = NO_PARTITION THEN partition_next_id + 1
                      ELSE partition_next_id
           new_size == nextPower2(MIN_TABLE_SIZE, next_id)
           table == IF new_size # partition_table_size
                    THEN resizeArrays(partitioned_nodes, new_size)
                    ELSE partitioned_nodes
       IN  /\ partition_next_id' = next_id
           /\ partition_table_size' = new_size
           /\ partitioned_nodes' = [table EXCEPT ![q] = Append(@, n)]
           /\ partitions' = [partitions EXCEPT ![n] = q]
           /\ q_vertex_count' = q_vertex_count + 1
    /\ UNCHANGED << graphVars, cfgVars, intVars, loadVars, heapVars, agVars, ccVars,
                    viewVars, nullVars, loopVars, callVars, ompVars, pc, h,
                    Q_nodes, Q_degree >>

\* void releaseQVertex(node n)
releaseQVertex(n) ==
    /\ pc = "qPartitioning"
    /\ n \in Q_nodes
    /\ isQVertex(n)
    /\ LET q == partitions[n]
       IN  /\ partitions' = [partitions EXCEPT ![n] = NO_PARTITION]
           /\ removeFirst(partitioned_nodes[q], n) # partitioned_nodes[q]
           /\ partitioned_nodes' =
                  [partitioned_nodes EXCEPT ![q] = removeFirst(@, n)]
           /\ q_vertex_count' = q_vertex_count - 1
    /\ UNCHANGED << graphVars, cfgVars, intVars, loadVars, heapVars, agVars, ccVars,
                    viewVars, nullVars, loopVars, callVars, ompVars, pc, h,
                    Q_nodes, Q_degree, partition_next_id, partition_table_size >>

\* void nodeDeleted(node v): the graph calls it for a node it deletes
nodeDeleted(v) ==
    /\ pc = "qPartitioning"
    /\ v \in Q_nodes
    /\ partitioned_nodes' =
          IF isQVertex(v)
          THEN [partitioned_nodes EXCEPT ![getPartitionOf(v)] = removeFirst(@, v)]
          ELSE partitioned_nodes
    /\ Q_nodes' = Q_nodes \ { v }
    /\ UNCHANGED << graphVars, cfgVars, intVars, loadVars, heapVars, agVars, ccVars,
                    viewVars, nullVars, loopVars, callVars, ompVars, pc, h,
                    Q_degree, partitions, partition_next_id, partition_table_size,
                    q_vertex_count >>

NextQ ==
    \/ \E n \in 1..MaxQNodes :
          \E p \in { NO_PARTITION } \cup 0..(partition_table_size - 1) :
             makeQVertex(n, p)
    \/ \E n \in 1..MaxQNodes : releaseQVertex(n)
    \/ \E v \in 1..MaxQNodes : nodeDeleted(v)

SpecQ == InitQ /\ [][NextQ]_vars

(***************************************************************************)
(* Properties.                                                             *)
(***************************************************************************)
\* the engine has returned for the current component
EngineReturned == pc = "writeback" /\ h.scalarCalls + h.sse3Calls >= 1
\* the current component is run, or was run, by the scalar loop
OnScalarPath == pc \in {"mainStep_loop", "writeback"} /\ h.scalarCalls = 1
\* the current component is run, or was run, by the vectorized loop
OnSse3Path == pc \in {"sse3_loop", "writeback"} /\ h.sse3Calls = 1 /\ h.scalarCalls = 0

\* C1: call() on an empty graph is a no-op: in every state of such a call the
\* attributes, the bends, the ArrayGraph, the boxes and the offsets are what
\* they were before the call, no Flat Graph View is built and the packer is
\* not invoked.
C1_EmptyGraphNoOp ==
    G_n = 0 =>
        /\ pc \in {"call", "done"}
        /\ AG_x = h.inX /\ AG_y = h.inY /\ ~bendsCleared
        /\ m_numCC = 0 /\ m_nodesInCC = << >> /\ m_mapNode = << >>
        /\ m_numNodes = 0 /\ m_orig = << >> /\ m_x = << >> /\ m_y = << >>
        /\ boundingBox = << >> /\ offset = << >>
        /\ h.packerCalls = 0 /\ h.initCalls = 0
        /\ h.scalarCalls = 0 /\ h.sse3Calls = 0

\* C1 witness: call() has returned on an empty graph.
C1_Witness == G_n = 0 /\ pc = "done"

\* C2: with iterations = 0 no main step executes on either path and cool is
\* never called: for a component of at least 2 nodes the positions in and
\* after the engine are the ones the Layout Initializer produced, and the
\* temperatures and the cooling counter keep their entry values.
C2_ZeroIterationsNoStep ==
    (m_iterations = 0 /\ m_numNodes >= 2) =>
        /\ h.steps = 0
        /\ (OnScalarPath \/ OnSse3Path) =>
              /\ m_x = h.initX /\ m_y = h.initY
              /\ h.initCalls = 1
              /\ tx = m_txNull /\ ty = m_tyNull /\ cF = 1

\* C2 witness: the scalar loop has returned for a component of 2 or more
\* nodes whose initializer rescaled the coordinates, with iterations = 0.
C2_Witness ==
    /\ m_iterations = 0 /\ m_numNodes >= 2 /\ EngineReturned /\ h.scalarCalls = 1
    /\ \E j \in 1..m_numNodes : m_x[j] # h.inX[m_orig[j]]

\* C3 (as claimed): for a component of exactly one node the engine is never
\* invoked and the position before the write-back translation is the
\* rescaled output of the Layout Initializer for that component.
C3_Original ==
    (pc = "writeback" /\ m_numNodes = 1) =>
        /\ h.scalarCalls = 0 /\ h.sse3Calls = 0
        /\ m_x = InitializeBody(h.initX, h.initY).x
        /\ m_y = InitializeBody(h.initX, h.initY).y

\* C3 (amended): for a component of exactly one node neither the Layout
\* Initializer nor the engine is invoked, and the position before the
\* write-back translation is the coordinate inherited from the attributes.
C3_SingleNodeKeepsInherited ==
    (pc = "writeback" /\ m_numNodes = 1) =>
        /\ h.scalarCalls = 0 /\ h.sse3Calls = 0 /\ h.initCalls = 0
        /\ h.steps = 0
        /\ m_x = << h.inX[m_orig[1]] >>
        /\ m_y = << h.inY[m_orig[1]] >>

\* C3 witness: a single-node component whose inherited coordinate is not
\* the origin is about to be written back.
C3_Witness ==
    /\ pc = "writeback" /\ m_numNodes = 1
    /\ m_x[1] # 0 /\ m_y[1] # 0

\* C4: on both paths the engine executes at most `iterations` main steps
\* and leaves the loop once it has executed that many; with checkConvergence
\* disabled it has executed exactly `iterations` main steps when it returns.
C4_AtMostBudgetSteps ==
    /\ h.steps <= m_iterations
    /\ (pc = "mainStep_loop" /\ h.steps = m_iterations) => converged
    /\ (pc = "sse3_loop" /\ h.steps = m_iterations) => itCount > m_iterations
    /\ (EngineReturned /\ ~m_checkConvergence) => h.steps = m_iterations

\* C4 witness: the scalar loop has returned after MaxIter main steps with
\* checkConvergence disabled.
C4_Witness ==
    /\ EngineReturned /\ h.scalarCalls = 1 /\ ~m_checkConvergence
    /\ m_iterations >= 2 /\ h.steps = m_iterations

\* C5: scalar path, checkConvergence enabled: the loop stops at the end of
\* the first iteration in which no node is above the threshold (after
\* exactly one iteration when that is the first), and it does not stop
\* earlier unless the budget is used up.
C5_StopsAtFirstQuietIteration ==
    (OnScalarPath /\ m_checkConvergence /\ h.steps >= 1) =>
        /\ ~h.exceeded => converged
        /\ (converged /\ h.exceeded) => h.steps = m_iterations

\* C5 witness: the scalar loop has returned after one iteration of a budget
\* of two, the two nodes being apart and none above the threshold.
C5_Witness ==
    /\ EngineReturned /\ h.scalarCalls = 1 /\ m_checkConvergence
    /\ m_iterations = 2 /\ h.steps = 1 /\ ~h.exceeded /\ h.apart

\* C6: the vectorized path makes the convergence decisions of the scalar
\* path: when mainStep_sse3 returns it has executed as many iterations as
\* mainStep executes on the same component under the same configuration
\* (stated for components whose nodes do not all start at one point).
C6_SameIterationsAsScalar ==
    ( /\ OnSse3Path /\ pc = "writeback"
      /\ \E u, v \in 1..m_numNodes : h.initX[u] # h.initX[v] \/ h.initY[u] # h.initY[v] ) =>
        h.steps = mainStep(h.initX, h.initY).steps

(***************************************************************************)
(* The occupied rectangle of a component in the attributes: node centres   *)
(* plus/minus half width and half height.                                  *)
(***************************************************************************)
CCNodes(c) == { m_nodesInCC[c][j] : j \in 1..Len(m_nodesInCC[c]) }
OccMinX(c) == SetMin({ AG_x[v] - TDiv(Width(v), 2) : v \in CCNodes(c) })
OccMaxX(c) == SetMax({ AG_x[v] + TDiv(Width(v), 2) : v \in CCNodes(c) })
OccMinY(c) == SetMin({ AG_y[v] - TDiv(Height(v), 2) : v \in CCNodes(c) })
OccMaxY(c) == SetMax({ AG_y[v] + TDiv(Height(v), 2) : v \in CCNodes(c) })

\* the recorded boxes a and b, placed at their offsets, do not overlap
BoxesDisjoint(a, b) ==
    \/ offset[a][1] + boundingBox[a][1] <= offset[b][1]
    \/ offset[b][1] + boundingBox[b][1] <= offset[a][1]
    \/ offset[a][2] + boundingBox[a][2] <= offset[b][2]
    \/ offset[b][2] + boundingBox[b][2] <= offset[a][2]

\* the occupied rectangles of a and b are gap or more apart along an axis
Separated(a, b, gap) ==
    \/ OccMaxX(a) + gap <= OccMinX(b)
    \/ OccMaxX(b) + gap <= OccMinX(a)
    \/ OccMaxY(a) + gap <= OccMinY(b)
    \/ OccMaxY(b) + gap <= OccMinY(a)

\* C7: after call() on a graph of two or more components, whenever the
\* packer's offsets keep the recorded boxes from overlapping, the occupied
\* rectangles of any two distinct components do not overlap and are at
\* least minDistCC apart along at least one axis.
C7_ComponentsSeparated ==
    (pc = "done" /\ m_numCC >= 2) =>
        \A a, b \in 1..m_numCC :
            (a # b /\ BoxesDisjoint(a, b)) =>
                /\ Separated(a, b, 0)
                /\ Separated(a, b, MinDistCC)

\* C7 witness: call() has returned on a graph whose first component has two
\* nodes and whose second component was packed into the same row, its box
\* touching the first one's.
C7_Witness ==
    /\ pc = "done" /\ m_numCC >= 2
    /\ Len(m_nodesInCC[1]) >= 2
    /\ BoxesDisjoint(1, 2)
    /\ offset[2] = << offset[1][1] + boundingBox[1][1], offset[1][2] >>
    /\ OccMaxX(1) + MinDistCC = OccMinX(2)

\* C8: a component of two nodes with identical initial coordinates and
\* iterations >= 1: when the engine returns, the two nodes have had
\* different positions after some iteration.
C8_CoincidentNodesSeparate ==
    ( /\ EngineReturned /\ m_numNodes = 2 /\ m_iterations >= 1
      /\ h.inX[m_orig[1]] = h.inX[m_orig[2]]
      /\ h.inY[m_orig[1]] = h.inY[m_orig[2]] ) => h.apart

(***************************************************************************)
(* Two nodes joined by one edge, scalar path, the loop left by convergence *)
(* (before the budget was used up) from distinct initial positions.        *)
(***************************************************************************)
TwoNodesConverged ==
    /\ EngineReturned /\ h.scalarCalls = 1 /\ m_checkConvergence
    /\ m_numNodes = 2 /\ m_numEdges = 1
    /\ h.steps >= 1 /\ itCount <= m_iterations
    /\ (h.initX[1] # h.initX[2] \/ h.initY[1] # h.initY[2])

\* the squared distance of nodes u and v at positions x, y
DistSq(x, y, u, v) == (x[u] - x[v]) * (x[u] - x[v]) + (y[u] - y[v]) * (y[u] - y[v])

\* C9 (as claimed): the distance d of the two nodes when the engine stops
\* satisfies |d - k| <= convTolerance * k.
C9_Original ==
    TwoNodesConverged =>
        /\ (IdealEdgeLength - threshold) * (IdealEdgeLength - threshold)
              <= DistSq(m_x, m_y, 1, 2)
        /\ DistSq(m_x, m_y, 1, 2)
              <= (IdealEdgeLength + threshold) * (IdealEdgeLength + threshold)

\* C9 (amended): when the engine stops by convergence, the last iteration
\* moved each of the two nodes by at most convTolerance * k, so that the
\* vector between them changed by at most 2 * convTolerance * k (and the
\* distance d by no more); d is not tied to k.
C9_LastMoveWithinTolerance ==
    TwoNodesConverged =>
        /\ \A v \in 1..2 :
              (m_x[v] - h.prevX[v]) * (m_x[v] - h.prevX[v])
              + (m_y[v] - h.prevY[v]) * (m_y[v] - h.prevY[v])
                 <= threshold * threshold
        /\ LET ddx == (m_x[1] - m_x[2]) - (h.prevX[1] - h.prevX[2])
               ddy == (m_y[1] - m_y[2]) - (h.prevY[1] - h.prevY[2])
           IN  ddx * ddx + ddy * ddy <= 4 * threshold * threshold

\* C9 witness: the loop was left by convergence with the two nodes at a
\* distance far below k, the last iteration having moved them.
C9_Witness ==
    /\ TwoNodesConverged
    /\ DistSq(m_x, m_y, 1, 2) # DistSq(h.prevX, h.prevY, 1, 2)
    /\ 4 * DistSq(m_x, m_y, 1, 2) < kSquare

StepPending ==
    \/ pc = "mainStep_loop" /\ ~converged
    \/ pc = "sse3_loop" /\ itCount <= m_iterations

\* the nodes u paired with v by the repulsive pass of the running path
RepPartners(v, n) ==
    IF pc = "sse3_loop" THEN SseLanes(v, n) ELSE (1..n) \ {v}

\* disp_x, disp_y after the repulsive and the attractive pass of the pending step
PendingDisp ==
    Attractive(m_x, m_y, m_src, m_tgt,
               IF pc = "sse3_loop" THEN Repulsive_sse3(m_x, m_y, m_nodeWeight)
                                   ELSE Repulsive(m_x, m_y, m_nodeWeight),
               m_numEdges)

\* C11: whatever the positions (coincident nodes, zero-length edges, a zero
\* accumulated displacement), every divisor of the main step that is about
\* to run is clamped: distSquare >= minDistSquare for every pair of the
\* repulsive pass, dist >= minDist for every edge of the attractive pass and
\* for every node of the capping pass, and k > 0; on both paths.
C11_DivisorsAtLeastMinDist ==
    StepPending =>
        /\ \A v \in 1..m_numNodes : \A u \in RepPartners(v, m_numNodes) :
              DistSquare(m_x[v] - m_x[u], m_y[v] - m_y[u]) >= minDistSquare
        /\ IdealEdgeLength > 0
        /\ \A e \in 1..m_numEdges :
              Dist(m_x[m_src[e]] - m_x[m_tgt[e]], m_y[m_src[e]] - m_y[m_tgt[e]]) >= MinDist
        /\ \A v \in 1..m_numNodes :
              Dist(PendingDisp[1][v], PendingDisp[2][v]) >= MinDist

\* C11 witness: a main step has run and another one is about to run on two
\* coincident nodes joined by an edge of length zero, the displacement
\* accumulated for each of them being zero.
C11_Witness ==
    /\ StepPending /\ h.steps >= 1
    /\ m_numNodes = 2 /\ m_numEdges = 1
    /\ m_x[1] = m_x[2] /\ m_y[1] = m_y[2]
    /\ PendingDisp[1][1] = 0 /\ PendingDisp[2][1] = 0

\* C12: for every non-negative ideal edge length (0 included) and every
\* component (nodes sharing a coordinate included) initialize and the main
\* step run without a division whose divisor is zero.
C12_NoDivisionByZero == pc # "divisionByZero"

(***************************************************************************)
(* The main step followed worker by worker.                                *)
(***************************************************************************)
InLoop == pc \in {"mainStep_loop", "sse3_loop"}
Nodes == 1..m_numNodes

\* the entries of the attractive pass of iteration it
AttOf(it) == { j \in 1..Len(g.attLog) : g.attLog[j][1] = it }

\* C13: in every iteration, on both paths and for any team and any split of
\* the loops, the three passes are separated by barriers: the attractive
\* pass is executed by one worker and applies each edge once; an edge is
\* applied only when the repulsive displacement of every node is stored; a
\* node is capped and moved only when the repulsive displacement of every
\* node is stored and every edge has been applied.
C13_PassesSeparatedByBarriers ==
    InLoop =>
        /\ \A j, k \in 1..Len(g.attLog) :
              g.attLog[j][1] = g.attLog[k][1] =>
                  /\ g.attLog[j][3] = g.attLog[k][3]
                  /\ j # k => g.attLog[j][2] # g.attLog[k][2]
        /\ \A j \in 1..Len(g.attLog) : \A v \in Nodes :
              << g.attLog[j][1], v >> \in g.rep
        /\ \A w \in Team : \A u \in Nodes :
              << It(w), u >> \in g.cap =>
                  /\ \A v \in Nodes : << It(w), v >> \in g.rep
                  /\ \A e \in 1..m_numEdges :
                        \E j \in AttOf(It(w)) : g.attLog[j][2] = e

\* C13 witness: in the second iteration of the vectorized path, two workers
\* having shared the repulsive loop, worker 2 has applied the two edges and
\* worker 1 has capped the pair of nodes 1, 2; the odd last node is not yet
\* capped.
C13_Witness ==
    /\ pc = "sse3_loop" /\ Len(wpc) >= 2 /\ m_numEdges >= 2
    /\ priv[1].i = 2 /\ priv[2].i = 2
    /\ ws.attBy = 2 /\ ws.attE = m_numEdges
    /\ << 2, 1 >> \in g.cap /\ << 2, m_numNodes >> \notin g.cap
    /\ wpc[1] = "odd" /\ wpc[2] = "odd"

\* two workers have accessed the shared location loc in the running pass,
\* one of them writing it
RaceOn(loc) ==
    \E a, b \in acc : a[1] # b[1] /\ a[3] = loc /\ b[3] = loc /\ a[2] = "w"

ViewBuilt ==
    pc \in {"initialize", "mainStep", "mainStep_loop", "mainStep_sse3", "sse3_loop",
            "writeback"}

\* the edges of G with both end nodes in component c
EdgesInCC(c) ==
    { e \in 1..Len(G_edges) : G_edges[e][1] \in CCNodes(c) /\ G_edges[e][2] \in CCNodes(c) }

\* C15: after initCC(i), j -> m_orig[j] is a bijection between the compact
\* indices and the nodes of component i, with m_mapNode[m_orig[j]] = j, and
\* every stored edge has both m_src[e] and m_tgt[e] among the compact
\* indices, naming the two end nodes of an edge of G; every edge of the
\* component is stored once.
C15_ViewIsComponent ==
    ViewBuilt =>
        /\ m_numNodes = Cardinality(CCNodes(i))
        /\ DOMAIN m_orig = 1..m_numNodes
        /\ { m_orig[j] : j \in 1..m_numNodes } = CCNodes(i)
        /\ \A j \in 1..m_numNodes : m_mapNode[m_orig[j]] = j
        /\ DOMAIN m_src = 1..m_numEdges /\ DOMAIN m_tgt = 1..m_numEdges
        /\ \A e \in 1..m_numEdges :
              /\ m_src[e] \in 1..m_numNodes
              /\ m_tgt[e] \in 1..m_numNodes
              /\ \E d \in EdgesInCC(i) :
                    { m_orig[m_src[e]], m_orig[m_tgt[e]] } = { G_edges[d][1], G_edges[d][2] }
        /\ \A d \in EdgesInCC(i) :
              Cardinality({ e \in 1..m_numEdges :
                              /\ m_src[e] \in 1..m_numNodes
                              /\ m_tgt[e] \in 1..m_numNodes
                              /\ { m_orig[m_src[e]], m_orig[m_tgt[e]] }
                                    = { G_edges[d][1], G_edges[d][2] } }) = 1

\* the second component, nodes 2 and 3 joined by an edge, is in the view:
\* compact and original indices differ
C15_Witness ==
    /\ ViewBuilt /\ i = 2
    /\ m_orig = <<2, 3>>
    /\ m_numEdges = 1 /\ m_src = <<1>> /\ m_tgt = <<2>>
    /\ m_mapNode[3] = 2

\* C16: in both cooling modes, with cool factors in (0, 1], a call of cool
\* leaves each temperature less than or equal to its value before the call:
\* after any number of calls tx and ty are at most what they were before the
\* last call, and at most the start values m_txNull = W / 8, m_tyNull = H / 8.
C16_CoolNeverHeats ==
    (pc = "cool" /\ h.cools >= 1) =>
        /\ tx <= h.prevTx /\ ty <= h.prevTy
        /\ tx <= m_txNull /\ ty <= m_tyNull
        /\ tx >= 0 /\ ty >= 0

\* Factor mode, third call, both temperatures strictly cooler than before
C16_Witness ==
    /\ pc = "cool" /\ m_coolingFunction = "Factor"
    /\ m_coolFactor_x = CoolFactorX /\ m_coolFactor_y = 50
    /\ h.cools = 3
    /\ tx < h.prevTx /\ ty < h.prevTy
    /\ h.prevTx < m_txNull

\* C18: in Logarithmic mode cF starts at 1 and grows by exactly 1 with every
\* call of cool; the first call (made with cF = 1) leaves tx and ty as they
\* were, and the call made with counter value c >= 2 sets
\* tx = m_txNull / log2(c) and ty = m_tyNull / log2(c) (for c = 2, 4, 8:
\* m_txNull, m_txNull / 2, m_txNull / 3); in Factor mode cF stays 1.
C18_LogarithmicSchedule ==
    pc = "cool" =>
        IF m_coolingFunction = "Logarithmic"
        THEN /\ cF = 1 + h.cools
             /\ h.cools = 1 => (tx = h.prevTx /\ ty = h.prevTy)
             /\ h.cools >= 2 =>
                   /\ tx = TDiv(m_txNull * 1000, mylog2(cF - 1))
                   /\ ty = TDiv(m_tyNull * 1000, mylog2(cF - 1))
             /\ h.cools = 2 => (tx = m_txNull /\ ty = m_tyNull)
             /\ h.cools = 4 => (tx = m_txNull \div 2 /\ ty = m_tyNull \div 2)
             /\ h.cools = 8 => (tx = m_txNull \div 3 /\ ty = m_tyNull \div 3)
        ELSE cF = 1

\* the fourth call, made with cF = 4, has halved the start temperatures
C18_Witness ==
    /\ pc = "cool" /\ m_coolingFunction = "Logarithmic"
    /\ h.cools = 4 /\ cF = 5
    /\ m_txNull = 37 /\ tx = 18
    /\ m_tyNull = 12 /\ ty = 6

\* the workers still in the iteration loop
Looping == { w \in Team : wpc[w] # "exit" }

\* C17: within one iteration positions are written by the capping pass only:
\* while any worker is in the repulsive or the attractive pass every node is
\* at the position it had when the iteration started, a node not yet capped
\* in the running iteration is still there, and no worker is in iteration
\* i + 1 before every node (the odd last one included) has been capped and
\* moved in iteration i.
C17_PositionsFrozenUntilCapping ==
    InLoop =>
        /\ (\E w \in Team : wpc[w] \in {"rep", "repB", "attRun", "attB"}) =>
              (m_x = g.startX /\ m_y = g.startY)
        /\ \A v \in Nodes :
              (Looping # {} /\ \A w \in Looping : << It(w), v >> \notin g.cap) =>
                  (m_x[v] = g.startX[v] /\ m_y[v] = g.startY[v])
        /\ \A w \in Looping : \A v \in Nodes :
              It(w) >= 2 => << It(w) - 1, v >> \in g.cap

\* C17 witness: the vectorized path on three nodes with two workers; both
\* are in iteration 2, worker 1 in the repulsive loop with the displacement
\* of one node stored, and the positions are those iteration 1 (pair and odd
\* last node capped) has left, not those of initialize.
C17_Witness ==
    /\ pc = "sse3_loop" /\ Len(wpc) = 2 /\ m_numNodes = 3
    /\ priv[1].i = 2 /\ priv[2].i = 2
    /\ wpc[1] = "rep" /\ (\E v \in Nodes : << 2, v >> \in g.rep)
    /\ << 1, 3 >> \in g.cap
    /\ m_x = g.startX /\ m_y = g.startY
    /\ m_x # h.initX

\* |a|
Abs(a) == IF a < 0 THEN -a ELSE a

\* C20: in every iteration of both paths every node's position changes by
\* at most tx along the x axis and at most ty along the y axis, tx and ty
\* being the temperatures in force before the iteration's call of cool.
C20_MoveWithinTemperature ==
    h.steps >= 1 =>
        \A v \in 1..m_numNodes :
            /\ Abs(m_x[v] - h.prevX[v]) <= h.prevTx
            /\ Abs(m_y[v] - h.prevY[v]) <= h.prevTy

\* second iteration of the vectorized path: a node has moved by the whole
\* temperature along x, and the temperature in force was the cooled one
C20_Witness ==
    /\ pc = "sse3_loop" /\ h.steps = 2
    /\ h.prevTx > 0 /\ h.prevTx < m_txNull /\ tx < h.prevTx
    /\ \E v \in 1..m_numNodes : Abs(m_x[v] - h.prevX[v]) = h.prevTx
    /\ \E v \in 1..m_numNodes : m_y[v] # h.prevY[v]

\* the engine has been entered for the current component and has not yet
\* executed an iteration
EngineStarted == pc \in {"mainStep_loop", "sse3_loop"} /\ h.steps = 0

\* the positions of the current component before initialize
InputX == [j \in 1..m_numNodes |-> AG_x[m_orig[j]]]
InputY == [j \in 1..m_numNodes |-> AG_y[m_orig[j]]]

\* C19: at the start of the engine for a component of at least 2 nodes the
\* temperatures are W / 8 and H / 8 as initialize computes them for this
\* component and the cooling counter is 1, whatever temperatures and counter
\* the components processed before have left.
C19_FreshTemperatures ==
    EngineStarted =>
        /\ tx = InitializeBody(InputX, InputY).txNull
        /\ ty = InitializeBody(InputX, InputY).tyNull
        /\ tx = m_txNull /\ ty = m_tyNull
        /\ cF = 1

\* the scalar path is entered after a component that ended in Logarithmic
\* mode with cF = 4: none of the values it left is in force
C19_Witness ==
    /\ EngineStarted /\ pc = "mainStep_loop" /\ m_numNodes >= 2
    /\ h.stale.cF = 4 /\ cF = 1
    /\ h.stale.txNull # m_txNull /\ h.stale.tyNull # m_tyNull
    /\ h.stale.tx # tx /\ h.stale.ty # ty

(***************************************************************************)
(* The edge arrays after initCC(i) on a graph with self-loops and parallel *)
(* edges.                                                                  *)
(***************************************************************************)
\* initCC(i) has been called on the ArrayGraph
ViewOfCC == pc = "arrayGraph" /\ i >= 1

\* the end nodes of edge d of G
Ends(d) == { G_edges[d][1], G_edges[d][2] }

\* the entries of the edge arrays whose compact indices name the nodes S
Stored(S) ==
    { e \in 1..m_numEdges :
        /\ m_src[e] \in 1..m_numNodes /\ m_tgt[e] \in 1..m_numNodes
        /\ { m_orig[m_src[e]], m_orig[m_tgt[e]] } = S }

\* the edges of component c that are not self-loops
NonLoops(c) == { d \in EdgesInCC(c) : G_edges[d][1] # G_edges[d][2] }

\* C21 (as stated): after initCC(i) every edge of the component, parallel
\* edges and self-loops included, has exactly one entry in the edge arrays
\* (as many entries name a pair of end nodes as the component has edges
\* between them) and m_numEdges is the number of edges of the component.
C21_Original ==
    ViewOfCC =>
        /\ m_numEdges = Cardinality(EdgesInCC(i))
        /\ \A d \in EdgesInCC(i) :
              Cardinality(Stored(Ends(d)))
                = Cardinality({ d2 \in EdgesInCC(i) : Ends(d2) = Ends(d) })

\* C21 (amended): after initCC(i) every edge of the component that is not a
\* self-loop, parallel edges included, has exactly one entry in the edge
\* arrays, with m_src and m_tgt the compact indices of its end nodes;
\* self-loops have no entry, and m_numEdges is the number of edges of the
\* component that are not self-loops.
C21_EdgesStoredOnceButLoops ==
    ViewOfCC =>
        /\ m_numEdges = Cardinality(NonLoops(i))
        /\ DOMAIN m_src = 1..m_numEdges /\ DOMAIN m_tgt = 1..m_numEdges
        /\ \A e \in 1..m_numEdges :
              /\ m_src[e] \in 1..m_numNodes /\ m_tgt[e] \in 1..m_numNodes
              /\ m_src[e] # m_tgt[e]
        /\ \A d \in NonLoops(i) :
              Cardinality(Stored(Ends(d)))
                = Cardinality({ d2 \in NonLoops(i) : Ends(d2) = Ends(d) })

\* the view of component 2 = {2, 3} of a graph with a self-loop at node 2
\* and two parallel edges, in opposite directions, between 2 and 3: two
\* entries, both for the pair 2, 3
C21_Witness ==
    /\ ViewOfCC /\ i = 2 /\ G_n = 3
    /\ G_edges = << <<2, 2>>, <<2, 3>>, <<3, 2>> >>
    /\ m_numEdges = 2
    /\ m_src = <<1, 1>> /\ m_tgt = <<2, 2>>

(***************************************************************************)
(* The loads of the vectorized repulsive pass.                             *)
(***************************************************************************)
\* the loads executed so far for lanes.v
LoadsDone == SubSeq(SseLoads(lanes.v, lanes.n), 1, lanes.k)

\* every load of the body for lanes.v has been executed
LoadsComplete == pc = "sse3_rep" /\ lanes.k = Len(SseLoads(lanes.v, lanes.n))

\* C22: in the vectorized repulsive pass, for every n >= 2 and every v in
\* [0, n), the paired and single loads process exactly the indices of [0, n)
\* other than v, each exactly once (none twice while the loops run), and
\* every paired load starts at an even u with u + 1 < n and does not cover v;
\* no load is outside [0, n).
C22_LoadsCoverOthersOnce ==
    pc = "sse3_rep" =>
        /\ \A u \in DOMAIN lanes.seen : lanes.seen[u] <= 1
        /\ lanes.seen[lanes.v] = 0
        /\ \A u \in DOMAIN lanes.seen : u >= lanes.n => lanes.seen[u] = 0
        /\ \A j \in 1..Len(LoadsDone) :
              /\ LoadsDone[j][2] \in 0..(lanes.n - 1)
              /\ LoadsDone[j][1] = "pd" =>
                    /\ LoadsDone[j][2] % 2 = 0
                    /\ LoadsDone[j][2] + 1 < lanes.n
                    /\ lanes.v \notin { LoadsDone[j][2], LoadsDone[j][2] + 1 }
        /\ LoadsComplete =>
              \A u \in 0..(lanes.n - 1) : u # lanes.v => lanes.seen[u] = 1

\* n = 7, v = 4: the loads are complete, with two paired loads before v, the
\* single load of 5 after the skip of v, and the last index loaded singly
C22_Witness ==
    /\ LoadsComplete
    /\ lanes.n = 7 /\ lanes.v = 4
    /\ LoadsDone = << <<"pd", 0>>, <<"pd", 2>>, <<"sd", 5>>, <<"sd", 6>> >>
    /\ lanes.seen[4] = 0 /\ lanes.seen[6] = 1

(***************************************************************************)
(* The components written back, before the packer runs.                    *)
(***************************************************************************)
\* the write-back step has run for component c and the packer has not
WrittenBack(c) == c \in 1..m_numCC /\ c < i /\ pc \notin {"call", "done"}

\* C23: after the write-back step for a component and before packing, the
\* least x - width / 2 and the least y - height / 2 over the component's
\* nodes are both minDistCC, and the box recorded for the component is its
\* occupied extent plus minDistCC on each axis.
C23_WrittenBackAtMargin ==
    \A c \in 1..m_numCC :
        WrittenBack(c) =>
            /\ OccMinX(c) = MinDistCC
            /\ OccMinY(c) = MinDistCC
            /\ boundingBox[c] = << OccMaxX(c) - OccMinX(c) + MinDistCC,
                                   OccMaxY(c) - OccMinY(c) + MinDistCC >>

\* a component of two or more nodes is written back, the packer is next; the
\* left side of its occupied rectangle is the left side of a node of
\* positive width, left of the centre of another node of the component
C23_Witness ==
    /\ pc = "pack"
    /\ \E c \in 1..m_numCC :
          /\ WrittenBack(c) /\ Len(m_nodesInCC[c]) >= 2
          /\ \E u, v \in CCNodes(c) :
                /\ u # v /\ Width(v) > 0
                /\ AG_x[v] - TDiv(Width(v), 2) = MinDistCC
                /\ AG_x[u] > MinDistCC
          /\ boundingBox[c][1] > MinDistCC

(***************************************************************************)
(* The aligned buffers during call().                                      *)
(***************************************************************************)
\* C24: at every point during call() the position, weight, handle and edge
\* buffers of at most one component are allocated (no pointer variable has
\* ever had two buffers allocated at a time) and no buffer is freed twice;
\* when call() has returned every buffer allocated during the call, the
\* displacement buffers of the engine included, has been freed exactly once.
C24_BuffersOfOneComponent ==
    /\ heap.peak <= 1
    /\ \A id \in 1..Len(heap.owner) : heap.frees[id] <= 1
    /\ \A b \in Buffers : Cardinality({ id \in Live(heap) : heap.owner[id] = b }) <= 1
    /\ pc = "done" => \A id \in 1..Len(heap.owner) : heap.frees[id] = 1

\* call() has returned on a graph of two components, the engine having run
\* on one of them: 12 buffers of the two views and 2 displacement buffers
\* were allocated, all are freed
C24_Witness ==
    /\ pc = "done" /\ m_numCC = 2
    /\ Len(heap.owner) = 14
    /\ Live(heap) = {}
    /\ \E id \in 1..14 : heap.owner[id] = "disp_x"

(***************************************************************************)
(* The view after initialize.                                              *)
(***************************************************************************)
\* initialize has returned, the main step is not yet entered
JustInitialized == pc \in {"mainStep", "mainStep_sse3"} /\ h.initCalls = 1

\* C25: after initialize on a component of at least 2 nodes with
\* idealEdgeLength > 0 the least x and the least y of the component are 0,
\* every x is in [0, W) and every y in [0, H), and two nodes keep their
\* order along each axis (nodes with equal input coordinates stay equal).
C25_InitializedInBox ==
    JustInitialized =>
        LET r == InitializeBody(InputX, InputY)
        IN  /\ m_numNodes >= 2 /\ m_idealEdgeLength > 0
            /\ \E v \in 1..m_numNodes : m_x[v] = 0
            /\ \E v \in 1..m_numNodes : m_y[v] = 0
            /\ \A v \in 1..m_numNodes :
                  /\ 0 <= m_x[v] /\ m_x[v] < r.W
                  /\ 0 <= m_y[v] /\ m_y[v] < r.H
            /\ \A u, v \in 1..m_numNodes :
                  /\ InputX[u] < InputX[v] => m_x[u] < m_x[v]
                  /\ InputX[u] = InputX[v] => m_x[u] = m_x[v]
                  /\ InputY[u] < InputY[v] => m_y[u] < m_y[v]
                  /\ InputY[u] = InputY[v] => m_y[u] = m_y[v]

\* three nodes whose least input x is 30: one is at x = 0 after initialize,
\* another to its right and above it, inside the box
C25_Witness ==
    /\ JustInitialized /\ m_numNodes = 3
    /\ \A v \in 1..3 : InputX[v] >= 30
    /\ \E u, v \in 1..3 :
          /\ m_x[u] = 0 /\ m_y[u] = 0
          /\ m_x[v] > 0 /\ m_y[v] > 0
          /\ InputX[u] < InputX[v]

(***************************************************************************)
(* The team size at the width of int.                                      *)
(***************************************************************************)
\* C26: for every node count n >= 2 that is an int, the team size requested
\* for the parallel region of mainStep_sse3 is at least 1 and at most
\* maxThreads.
C26_TeamWithinHardware ==
    threads.done => 1 <= threads.rep /\ threads.rep <= maxThreads

\* as long as n * n is an int the team size is within 1..maxThreads
TeamWithinHardwareWithoutOverflow ==
    threads.done /\ threads.n * threads.n <= IntMax =>
        1 <= threads.rep /\ threads.rep <= maxThreads

\* the team size is never above maxThreads
TeamAtMostHardware == threads.done => threads.rep <= maxThreads

\* a build that wraps the product (two's complement) still asks for a team
\* of at least one worker (refuted: the wrapped product can be negative)
WrappedTeamNotBelowOne ==
    threads.done /\ threads.sq = Wrapped(threads.n * threads.n) =>
        threads.rep >= 1

(***************************************************************************)
(* Convergence of the scalar path under Factor cooling.                    *)
(***************************************************************************)
\* the loop of mainStep was left with budget remaining: by the convergence
\* test
ConvergedByTest ==
    pc = "writeback" /\ h.scalarCalls = 1 /\ itCount <= m_iterations

\* the temperatures the last iteration was capped with are within the
\* threshold: tx^2 + ty^2 <= threshold^2
LastStepCold ==
    h.steps >= 1 /\ h.prevTx * h.prevTx + h.prevTy * h.prevTy <= threshold * threshold

\* an iteration capped with temperatures within the threshold ends the loop
ColdStepStops == pc = "mainStep_loop" /\ LastStepCold => converged

\* C27: on the scalar path with the convergence test, Factor cooling with
\* both cool factors below 1 and a budget that is large enough, the loop
\* eventually declares convergence whatever the forces are, and no later
\* than the first iteration whose temperatures satisfy
\* tx^2 + ty^2 <= threshold^2.
C27_EventuallyConverges == <>ConvergedByTest /\ []ColdStepStops

\* with the default cool factors the loop ran ten iterations or more above
\* the threshold and stopped at the first one capped with cold temperatures
C27_Witness ==
    /\ ConvergedByTest /\ LastStepCold
    /\ h.steps >= 10
    /\ m_coolFactor_x = CoolFactorX /\ m_coolFactor_y = CoolFactorY

(***************************************************************************)
(* QPartitioning: the count and the lists.                                 *)
(***************************************************************************)
RECURSIVE ListTotal(_)
\* the number of nodes stored in the lists of the partitions in P
ListTotal(P) ==
    IF P = {} THEN 0
    ELSE LET q == CHOOSE q \in P : TRUE
         IN  Len(partitioned_nodes[q]) + ListTotal(P \ { q })

\* node n is stored in the list of partition q
Listed(n, q) == \E k \in 1..Len(partitioned_nodes[q]) : partitioned_nodes[q][k] = n

\* a node is stored in the list of q exactly when it exists and partitions
\* has q for it
ListsMatchPartitions ==
    \A n \in 1..MaxQNodes : \A q \in DOMAIN partitioned_nodes :
        Listed(n, q) <=> (n \in Q_nodes /\ partitions[n] = q)

\* C28: after any sequence of makeQVertex, releaseQVertex and nodeDeleted
\* calls that respects their assertions, q_vertex_count is the number of
\* nodes stored in the lists of partitioned_nodes, and a node n is stored in
\* partitioned_nodes[p] exactly when n exists and partitions[n] = p.
C28_CountAndListsAgree ==
    /\ q_vertex_count = ListTotal(DOMAIN partitioned_nodes)
    /\ ListsMatchPartitions

\* as long as no node was deleted the count is the number of stored nodes
CountMatchesListsBeforeDeletion ==
    Q_nodes = 1..MaxQNodes =>
        q_vertex_count = ListTotal(DOMAIN partitioned_nodes)

\* the count is never below the number of stored nodes
CountAtLeastLists == q_vertex_count >= ListTotal(DOMAIN partitioned_nodes)

====
